---------------------------- MODULE Spec2Model ----------------------------
(***************************************************************************)
(* A model of the decision path of BundLink: destination-trust validation  *)
(* (server/lib/domain.ts), conditional destination routing                 *)
(* (DatabaseStorage.getDestinationUrl) and the link routes that compose    *)
(* them (server/routes.ts); of tenant administration                       *)
(* (server/routes/ai.ts), tenant resolution with its domain cache          *)
(* (server/middleware/tenant.ts) and the retention job                     *)
(* (server/jobs/retention.ts).                                             *)
(*                                                                         *)
(* Strings are sequences of one-character strings, so that prefix, suffix  *)
(* and case conversion are computed, not assumed.  The scheme prefix of a  *)
(* URL is the single element "https://".                                   *)
(***************************************************************************)
EXTENDS Integers, Sequences, FiniteSets, TLC

(***************************************************************************)
(* Bounds of the model.                                                    *)
(***************************************************************************)
MaxHostLen == 4
MaxBaseLen == 3
MaxVHostLen == 3
MaxWhitelist == 2

(***************************************************************************)
(* String primitives of the JavaScript runtime, as the code uses them.     *)
(***************************************************************************)
LowerMap ==
  ("A" :> "a") @@ ("B" :> "b") @@ ("D" :> "d") @@ ("E" :> "e") @@
  ("F" :> "f") @@ ("N" :> "n") @@ ("R" :> "r") @@ ("U" :> "u") @@ ("W" :> "w")

UpperMap ==
  ("a" :> "A") @@ ("b" :> "B") @@ ("d" :> "D") @@ ("e" :> "E") @@
  ("f" :> "F") @@ ("n" :> "N") @@ ("r" :> "R") @@ ("u" :> "U") @@ ("w" :> "W")

toLowerCase(s) ==
  [i \in 1..Len(s) |-> IF s[i] \in DOMAIN LowerMap THEN LowerMap[s[i]] ELSE s[i]]

toUpperCase(s) ==
  [i \in 1..Len(s) |-> IF s[i] \in DOMAIN UpperMap THEN UpperMap[s[i]] ELSE s[i]]

RECURSIVE trimStart(_)
trimStart(s) ==
  IF s # <<>> /\ Head(s) = " " THEN trimStart(Tail(s)) ELSE s

RECURSIVE trimEnd(_)
trimEnd(s) ==
  IF s # <<>> /\ s[Len(s)] = " " THEN trimEnd(SubSeq(s, 1, Len(s) - 1)) ELSE s

trim(s) == trimEnd(trimStart(s))

startsWith(s, p) == Len(p) <= Len(s) /\ SubSeq(s, 1, Len(p)) = p

endsWith(s, p) == Len(p) <= Len(s) /\ SubSeq(s, Len(s) - Len(p) + 1, Len(s)) = p

slice(s, n) == SubSeq(s, n + 1, Len(s))

includes(s, p) ==
  \E i \in 0..(Len(s) - Len(p)) : SubSeq(s, i + 1, i + Len(p)) = p

\* All non-empty strings over chars of length at most n.
Strs(chars, n) == UNION {[1..k -> chars] : k \in 1..n}

\* All sequences over S of length at most n.
SeqsUpTo(S, n) == UNION {[1..k -> S] : k \in 0..n}

(***************************************************************************)
(* new URL(url): the input is stripped of surrounding spaces, must carry a *)
(* scheme, and its host (up to the first "/") must be non-empty and free   *)
(* of forbidden host code points (here the space); the hostname is the     *)
(* host in lower case.                                                     *)
(***************************************************************************)
Scheme == "https://"

RECURSIVE upToSlash(_)
upToSlash(s) ==
  IF s = <<>> \/ Head(s) = "/" THEN <<>> ELSE <<Head(s)>> \o upToSlash(Tail(s))

ParseUrl(url) ==
  LET u == trim(url)
      host == IF u # <<>> THEN upToSlash(Tail(u)) ELSE <<>>
  IN  IF /\ u # <<>>
         /\ Head(u) = Scheme
         /\ host # <<>>
         /\ \A i \in 1..Len(host) : host[i] \notin {" ", Scheme}
      THEN [ok |-> TRUE, hostname |-> toLowerCase(host)]
      ELSE [ok |-> FALSE, hostname |-> <<>>]

(***************************************************************************)
(* server/lib/domain.ts                                                    *)
(***************************************************************************)
\* Mutation: the wildcard branch accepts any hostname ending with the base
\* domain, without the dot boundary.
matchesDomainPattern_NoDotBoundary(url, pattern) ==
  LET urlObj == ParseUrl(url)
      hostname == urlObj.hostname
      normalizedPattern == trim(toLowerCase(pattern))
      baseDomain == slice(normalizedPattern, 2)
  IN  IF ~urlObj.ok THEN FALSE
      ELSE IF hostname = normalizedPattern THEN TRUE
      ELSE IF startsWith(normalizedPattern, <<"*", ".">>)
           THEN endsWith(hostname, baseDomain)
           ELSE FALSE

matchesDomainPattern(url, pattern) ==
  LET urlObj == ParseUrl(url)
      hostname == urlObj.hostname
      normalizedPattern == trim(toLowerCase(pattern))
      baseDomain == slice(normalizedPattern, 2)
  IN  IF ~urlObj.ok THEN FALSE
      ELSE IF hostname = normalizedPattern THEN TRUE
      ELSE IF startsWith(normalizedPattern, <<"*", ".">>)
           THEN IF hostname = baseDomain THEN TRUE
                ELSE endsWith(hostname, <<".">> \o baseDomain)
           ELSE FALSE

matchesWhitelist(url, whitelist) ==
  \E i \in 1..Len(whitelist) : matchesDomainPattern(url, whitelist[i])

isExternalLink(url, whitelist) == ~matchesWhitelist(url, whitelist)

extractHostname(url) == ParseUrl(url).hostname

\* "Ungültige URL"
InvalidUrlReason == <<"Ungueltige URL">>

NotWhitelistedReason(hostname) ==
  <<"Domain \"">> \o hostname
    \o <<"\" ist nicht in der Whitelist. Nur Links zu vertrauenswuerdigen Domains sind erlaubt.">>

\* Mutation: warn mode enforces the whitelist like block mode.
validateDestinationUrl_WarnBlocks(url, whitelistMode, whitelist) ==
  LET isWhitelisted == matchesWhitelist(url, whitelist)
  IN  IF ~ParseUrl(url).ok
      THEN [allowed |-> FALSE, reason |-> InvalidUrlReason]
      ELSE IF whitelistMode = "allow" THEN [allowed |-> TRUE, reason |-> <<>>]
      ELSE IF ~isWhitelisted
           THEN [allowed |-> FALSE,
                 reason |-> NotWhitelistedReason(extractHostname(url))]
           ELSE [allowed |-> TRUE, reason |-> <<>>]

validateDestinationUrl(url, whitelistMode, whitelist) ==
  LET isWhitelisted == matchesWhitelist(url, whitelist)
  IN  IF ~ParseUrl(url).ok
      THEN [allowed |-> FALSE, reason |-> InvalidUrlReason]
      ELSE IF whitelistMode = "allow" THEN [allowed |-> TRUE, reason |-> <<>>]
      ELSE IF whitelistMode = "warn" THEN [allowed |-> TRUE, reason |-> <<>>]
      ELSE IF whitelistMode = "block" /\ ~isWhitelisted
           THEN [allowed |-> FALSE,
                 reason |-> NotWhitelistedReason(extractHostname(url))]
           ELSE [allowed |-> TRUE, reason |-> <<>>]

WhitelistModes == {"warn", "block", "allow"}

(***************************************************************************)
(* State of the pure-function checks of domain.ts: the arguments of one    *)
(* call and its result.                                                    *)
(***************************************************************************)
VARIABLES dUrl, dMode, dWhitelist, dRet

domainVars == <<dUrl, dMode, dWhitelist, dRet>>

(***************************************************************************)
(* State of the store and of the link routes: the links table, the         *)
(* routing_rules table in insertion order, the outcome of the last         *)
(* getDestinationUrl call and the last preview response.                   *)
(***************************************************************************)
VARIABLES links, routingRules, lastCall, lastPreview

storeVars == <<links, routingRules, lastCall, lastPreview>>

(***************************************************************************)
(* State of tenant administration: the tenants table and the outcome of    *)
(* the last tenant request.                                                *)
(***************************************************************************)
VARIABLES tenants, lastTenantReq

tenantVars == <<tenants, lastTenantReq>>

(***************************************************************************)
(* State of tenant resolution (server/middleware/tenant.ts): the domain    *)
(* cache and the time of its last refresh, the clock, the requests in      *)
(* flight with the point each has reached, and the rows the latest         *)
(* successful refresh query returned.                                      *)
(***************************************************************************)
VARIABLES domainCache, lastCacheRefresh, now, req, lastDomains

cacheVars == <<domainCache, lastCacheRefresh, now, req, lastDomains>>

(***************************************************************************)
(* State of the retention job (server/jobs/retention.ts): the analytics    *)
(* and audit_logs tables, the day, and the position of the running job.    *)
(***************************************************************************)
VARIABLES analytics, auditLogs, today, job

retentionVars == <<analytics, auditLogs, today, job>>

adminVars == <<tenantVars, cacheVars, retentionVars>>

(***************************************************************************)
(* State of the privacy library and of click tracking: the arguments of    *)
(* one library call and its result, and the outcome of the last tracking   *)
(* request.                                                                *)
(***************************************************************************)
VARIABLES pArgs, pRet, lastTrack

privacyVars == <<pArgs, pRet, lastTrack>>

(***************************************************************************)
(* State of custom-domain administration: the custom_domains table and the *)
(* outcome of the last custom-domain request.                              *)
(***************************************************************************)
VARIABLES customDomains, lastDomainReq

domainAdminVars == <<customDomains, lastDomainReq>>

extVars == <<privacyVars, domainAdminVars>>

vars == <<domainVars, storeVars, adminVars, extVars>>

Pending == [pending |-> TRUE]

(***************************************************************************)
(* The routing_rules table and DatabaseStorage.getDestinationUrl.          *)
(*                                                                         *)
(* A condition is the JSON object of a rule.  The code reads its keys by   *)
(* truthiness, so an absent key and a key holding the empty string are the *)
(* same value here, <<>>; undefined context values are <<>> as well.       *)
(***************************************************************************)
RuleTypes == {"geographic", "language", "device", "time"}

NoCondition ==
  [country |-> <<>>, state |-> <<>>, region |-> <<>>, language |-> <<>>,
   locale |-> <<>>, deviceType |-> <<>>, device |-> <<>>]

normalizeContext(context) ==
  [country |-> toUpperCase(context.country),
   language |-> toLowerCase(context.language),
   deviceType |-> toLowerCase(context.deviceType)]

\* Mutation: the geographic case ignores the state and region keys.
ruleMatches_IgnoresStateRegion(rule, normalizedContext) ==
  LET condition == rule.condition
  IN  CASE rule.ruleType = "geographic" ->
             IF condition.country # <<>>
             THEN normalizedContext.country = toUpperCase(condition.country)
             ELSE FALSE
        [] rule.ruleType = "language" ->
             \/ /\ condition.language # <<>>
                /\ startsWith(normalizedContext.language, toLowerCase(condition.language))
             \/ /\ condition.locale # <<>>
                /\ normalizedContext.language = toLowerCase(condition.locale)
        [] rule.ruleType = "device" ->
             \/ /\ condition.deviceType # <<>>
                /\ normalizedContext.deviceType = toLowerCase(condition.deviceType)
             \/ /\ condition.device # <<>>
                /\ normalizedContext.deviceType = toLowerCase(condition.device)
        [] OTHER -> FALSE

\* Mutation: the default case treats an unrecognized rule type as a
\* country rule.
ruleMatches_DefaultMatchesCountry(rule, normalizedContext) ==
  LET condition == rule.condition
  IN  CASE rule.ruleType \in {"geographic", "time"} ->
             IF condition.country # <<>> /\ condition.state = <<>> /\ condition.region = <<>>
             THEN normalizedContext.country = toUpperCase(condition.country)
             ELSE FALSE
        [] rule.ruleType = "language" ->
             \/ /\ condition.language # <<>>
                /\ startsWith(normalizedContext.language, toLowerCase(condition.language))
             \/ /\ condition.locale # <<>>
                /\ normalizedContext.language = toLowerCase(condition.locale)
        [] rule.ruleType = "device" ->
             \/ /\ condition.deviceType # <<>>
                /\ normalizedContext.deviceType = toLowerCase(condition.deviceType)
             \/ /\ condition.device # <<>>
                /\ normalizedContext.deviceType = toLowerCase(condition.device)
        [] OTHER -> FALSE

\* The body of the loop of getDestinationUrl: the switch on rule.ruleType.
ruleMatches(rule, normalizedContext) ==
  LET condition == rule.condition
  IN  CASE rule.ruleType = "geographic" ->
             IF condition.country # <<>> /\ condition.state = <<>> /\ condition.region = <<>>
             THEN normalizedContext.country = toUpperCase(condition.country)
             ELSE FALSE
        [] rule.ruleType = "language" ->
             LET conditionLang == toLowerCase(condition.language)
                 byLanguage ==
                   /\ condition.language # <<>>
                   /\ \/ normalizedContext.language = conditionLang
                      \/ startsWith(normalizedContext.language, conditionLang)
             IN  \/ byLanguage
                 \/ /\ condition.locale # <<>>
                    /\ normalizedContext.language = toLowerCase(condition.locale)
        [] rule.ruleType = "device" ->
             \/ /\ condition.deviceType # <<>>
                /\ normalizedContext.deviceType = toLowerCase(condition.deviceType)
             \/ /\ condition.device # <<>>
                /\ normalizedContext.deviceType = toLowerCase(condition.device)
        [] OTHER -> FALSE

\* The rows of a link in insertion order.
rulesOfLink(table, linkId) == SelectSeq(table, LAMBDA r : r.linkId = linkId)

Reorderings(rows) ==
  {[i \in 1..Len(rows) |-> rows[p[i]]] : p \in Permutations(1..Len(rows))}

\* Mutation: the query has no ORDER BY and returns the rows as inserted.
getRoutingRulesByLink_Unordered(table, linkId) == {rulesOfLink(table, linkId)}

\* SELECT ... WHERE link_id = linkId ORDER BY priority DESC: every order of
\* the link's rows that is descending in priority; the store fixes no order
\* among rows of equal priority.
getRoutingRulesByLink(table, linkId) ==
  {rows \in Reorderings(rulesOfLink(table, linkId)) :
     \A i, j \in 1..Len(rows) : i < j => rows[i].priority >= rows[j].priority}

RECURSIVE firstMatching(_, _, _)
firstMatching(rules, normalizedContext, i) ==
  IF i > Len(rules) THEN 0
  ELSE IF ruleMatches(rules[i], normalizedContext) THEN i
  ELSE firstMatching(rules, normalizedContext, i + 1)

\* Mutation: a missing link yields an empty destination instead of an error.
getDestinationUrl_NoThrow(link, rules, context) ==
  LET i == firstMatching(rules, normalizeContext(context), 1)
  IN  [threw |-> FALSE,
       url |-> IF i > 0 THEN rules[i].targetUrl
               ELSE IF link = <<>> THEN <<>> ELSE link[1].destinationUrl]

\* Mutation: when no rule matches, the target of the last rule is returned.
getDestinationUrl_FallsToLastRule(link, rules, context) ==
  IF link = <<>>
  THEN [threw |-> TRUE, url |-> <<>>]
  ELSE LET i == firstMatching(rules, normalizeContext(context), 1)
       IN  [threw |-> FALSE,
            url |-> IF i > 0 THEN rules[i].targetUrl
                    ELSE IF rules # <<>> THEN rules[Len(rules)].targetUrl
                    ELSE link[1].destinationUrl]

\* link: the rows of SELECT ... FROM links WHERE id = linkId LIMIT 1;
\* rules: the rows getRoutingRulesByLink returned.
getDestinationUrl(link, rules, context) ==
  IF link = <<>>
  THEN [threw |-> TRUE, url |-> <<>>]
  ELSE LET i == firstMatching(rules, normalizeContext(context), 1)
       IN  [threw |-> FALSE,
            url |-> IF i > 0 THEN rules[i].targetUrl ELSE link[1].destinationUrl]

selectLink(table, linkId) == SelectSeq(table, LAMBDA l : l.id = linkId)

\* The domain variables while a specification of the store runs, and the
\* store variables while a specification of domain.ts runs.
DomainIdle ==
  /\ dUrl = <<>>
  /\ dMode = "warn"
  /\ dWhitelist = <<>>
  /\ dRet = Pending

StoreIdle ==
  /\ links = <<>>
  /\ routingRules = <<>>
  /\ lastCall = Pending
  /\ lastPreview = Pending

TenantsIdle ==
  /\ tenants = <<>>
  /\ lastTenantReq = Pending

CacheIdle ==
  /\ domainCache = <<>>
  /\ lastCacheRefresh = 0
  /\ now = 0
  /\ req = <<>>
  /\ lastDomains = {}

RetentionIdle ==
  /\ analytics = {}
  /\ auditLogs = {}
  /\ today = 0
  /\ job = Pending

AdminIdle == TenantsIdle /\ CacheIdle /\ RetentionIdle

PrivacyIdle ==
  /\ pArgs = <<>>
  /\ pRet = Pending
  /\ lastTrack = Pending

DomainAdminIdle ==
  /\ customDomains = {}
  /\ lastDomainReq = Pending

ExtIdle == PrivacyIdle /\ DomainAdminIdle

HostChars == {"a", "b", ".", "A"}

PatternChars == {"a", "b", ".", "A"}

\* Patterns "base" and "*.base".
PatternInputs ==
  {pre \o base : pre \in {<<>>, <<"*", ".">>}, base \in Strs(PatternChars, MaxBaseLen)}

InitPattern ==
  /\ dUrl \in {<<Scheme>> \o h : h \in Strs(HostChars, MaxHostLen)}
  /\ dMode = "block"
  /\ dWhitelist \in {<<p>> : p \in PatternInputs}
  /\ dRet = Pending
  /\ StoreIdle
  /\ AdminIdle
  /\ ExtIdle

CallMatchesDomainPattern ==
  /\ dRet = Pending
  /\ dRet' = [fn |-> "matchesDomainPattern",
              ret |-> matchesDomainPattern(dUrl, dWhitelist[1])]
  /\ UNCHANGED <<dUrl, dMode, dWhitelist, storeVars, adminVars, extVars>>

NextPattern == CallMatchesDomainPattern

SpecPattern == InitPattern /\ [][NextPattern]_vars

(***************************************************************************)
(* C10.  For a pattern "*.base", matchesDomainPattern holds of a URL with  *)
(* hostname h exactly when h equals base or h ends with "." + base,        *)
(* compared case-insensitively; a hostname that only ends with base        *)
(* without the dot boundary does not match.                                *)
(***************************************************************************)
C10_WildcardIffDotBoundary ==
  (dRet # Pending /\ dRet.fn = "matchesDomainPattern"
     /\ startsWith(dWhitelist[1], <<"*", ".">>))
  => LET h == toLowerCase(Tail(dUrl))
         base == toLowerCase(slice(dWhitelist[1], 2))
     IN  dRet.ret <=> (h = base \/ endsWith(h, <<".">> \o base))

\* The case of evilbund.de against *.bund.de: the hostname ends with the base
\* but not at a dot boundary, and the call has answered false.
C10_Witness ==
  /\ dRet # Pending
  /\ dRet.fn = "matchesDomainPattern"
  /\ startsWith(dWhitelist[1], <<"*", ".">>)
  /\ dUrl = <<Scheme, "b", "a", ".", "b">>
  /\ dWhitelist = <<(<<"*", ".", "A", ".", "b">>)>>
  /\ LET h == toLowerCase(Tail(dUrl))
         base == toLowerCase(slice(dWhitelist[1], 2))
     IN  endsWith(h, base) /\ h # base /\ ~endsWith(h, <<".">> \o base)
  /\ dRet.ret = FALSE

(***************************************************************************)
(* Inputs of validateDestinationUrl: URLs with and without a scheme, with  *)
(* hosts that may hold a space, and whitelists over a few patterns.        *)
(***************************************************************************)
VHostChars == {"a", "b", ".", " "}

UrlInputs ==
  {pre \o h \o suf : pre \in {<<>>, <<Scheme>>},
                     h \in Strs(VHostChars, MaxVHostLen),
                     suf \in {<<>>, <<"/", "a">>}}

ValidatePatterns ==
  {<<"a", ".", "b">>, <<"*", ".", "a", ".", "b">>, <<"*", ".", "b">>, <<"b">>}

InitValidate ==
  /\ dUrl \in UrlInputs
  /\ dMode \in WhitelistModes
  /\ dWhitelist \in SeqsUpTo(ValidatePatterns, MaxWhitelist)
  /\ dRet = Pending
  /\ StoreIdle
  /\ AdminIdle
  /\ ExtIdle

CallValidateDestinationUrl ==
  /\ dRet = Pending
  /\ dRet' = [fn |-> "validateDestinationUrl",
              ret |-> validateDestinationUrl(dUrl, dMode, dWhitelist)]
  /\ UNCHANGED <<dUrl, dMode, dWhitelist, storeVars, adminVars, extVars>>

NextValidate == CallValidateDestinationUrl

SpecValidate == InitValidate /\ [][NextValidate]_vars

\* The matching rule of section 4.1, stated on a hostname.
HostnameMatches(h, pattern) ==
  LET p == toLowerCase(pattern)
  IN  \/ h = p
      \/ /\ startsWith(p, <<"*", ".">>)
         /\ (h = slice(p, 2) \/ endsWith(h, <<".">> \o slice(p, 2)))

(***************************************************************************)
(* C2.  validateDestinationUrl answers blocked exactly when the URL does   *)
(* not parse (in every mode), or the mode is block and the hostname        *)
(* matches no pattern of the whitelist; in the block case the reason       *)
(* contains the hostname.  A URL that parses is allowed in allow and warn  *)
(* mode.                                                                   *)
(***************************************************************************)
C2_BlockedIff ==
  (dRet # Pending /\ dRet.fn = "validateDestinationUrl")
  => LET parsed == ParseUrl(dUrl)
         noMatch == \A i \in 1..Len(dWhitelist) :
                       ~HostnameMatches(parsed.hostname, dWhitelist[i])
     IN  /\ (~dRet.ret.allowed) <=> (~parsed.ok \/ (dMode = "block" /\ noMatch))
         /\ (parsed.ok /\ dMode = "block" /\ noMatch)
              => includes(dRet.ret.reason, parsed.hostname)
         /\ (parsed.ok /\ dMode \in {"allow", "warn"}) => dRet.ret.allowed

\* A parseable URL was blocked in block mode against a non-empty whitelist,
\* with a reason that names its hostname.
C2_Witness ==
  /\ dRet # Pending
  /\ dRet.fn = "validateDestinationUrl"
  /\ dMode = "block"
  /\ ParseUrl(dUrl).ok
  /\ dUrl = <<Scheme, "b", ".", "a", "/", "a">>
  /\ dWhitelist = <<(<<"*", ".", "a", ".", "b">>), (<<"b">>)>>
  /\ ~dRet.ret.allowed
  /\ includes(dRet.ret.reason, ParseUrl(dUrl).hostname)

(***************************************************************************)
(* The store under getDestinationUrl: two links exist, a third id names no *)
(* link; rules are inserted one at a time and one lookup is observed.  The *)
(* lookup writes nothing, so it is recorded once per behaviour.            *)
(***************************************************************************)
MaxRules == 2
MaxLangLen == 3

Dest1 == <<Scheme, "d", ".", "d", "e">>
Dest2 == <<Scheme, "e", ".", "d", "e">>
TargetA == <<Scheme, "a", ".", "d", "e">>
TargetB == <<Scheme, "b", ".", "d", "e">>

NoTenant == "none"

RoutingLinks ==
  << [id |-> "l1", destinationUrl |-> Dest1, tenantId |-> NoTenant],
     [id |-> "l2", destinationUrl |-> Dest2, tenantId |-> NoTenant] >>

LinkIds == {"l1", "l2", "l3"}

Context(c, l, d) == [country |-> c, language |-> l, deviceType |-> d]

RoutingConditions ==
  [ruleType : {"geographic"}, condition : {[NoCondition EXCEPT !.country = <<"D", "E">>]}]
  \cup [ruleType : {"language"}, condition : {[NoCondition EXCEPT !.language = <<"e", "n">>]}]
  \cup [ruleType : {"time"}, condition : {[NoCondition EXCEPT !.country = <<"D", "E">>]}]

RoutingRuleInputs ==
  {[linkId |-> l, ruleType |-> tc.ruleType, condition |-> tc.condition,
    targetUrl |-> t, priority |-> p] :
     l \in {"l1", "l2"}, tc \in RoutingConditions, t \in {TargetA, TargetB}, p \in {5, 10}}

RoutingContexts ==
  {Context(c, l, <<>>) : c \in {<<>>, <<"D", "E">>, <<"d", "e">>}, l \in {<<>>, <<"e", "n">>}}

\* storage.createRoutingRule: the insert fails on the foreign key when the
\* link does not exist; the row's id stands for its place in insertion order.
CreateRoutingRuleOver(inputs, maxRules) ==
  /\ lastCall = Pending
  /\ Len(routingRules) < maxRules
  /\ \E in \in inputs :
       /\ selectLink(links, in.linkId) # <<>>
       /\ routingRules' = Append(routingRules,
            [id |-> Len(routingRules) + 1, linkId |-> in.linkId,
             ruleType |-> in.ruleType, condition |-> in.condition,
             targetUrl |-> in.targetUrl, priority |-> in.priority])
  /\ UNCHANGED <<links, lastCall, lastPreview, domainVars, adminVars, extVars>>

\* storage.getDestinationUrl(linkId, context): the outcome and what it read.
GetDestinationUrlOver(linkIds, contexts) ==
  /\ lastCall = Pending
  /\ \E linkId \in linkIds, context \in contexts :
       \E rules \in getRoutingRulesByLink(routingRules, linkId) :
          LET r == getDestinationUrl(selectLink(links, linkId), rules, context)
          IN  lastCall' = [linkId |-> linkId, context |-> context, rules |-> rules,
                           threw |-> r.threw, url |-> r.url]
  /\ UNCHANGED <<links, routingRules, lastPreview, domainVars, adminVars, extVars>>

CreateRoutingRule == CreateRoutingRuleOver(RoutingRuleInputs, MaxRules)

GetDestinationUrl == GetDestinationUrlOver(LinkIds, RoutingContexts)

InitRouting ==
  /\ links = RoutingLinks
  /\ routingRules = <<>>
  /\ lastCall = Pending
  /\ lastPreview = Pending
  /\ DomainIdle
  /\ AdminIdle
  /\ ExtIdle

NextRouting == CreateRoutingRule \/ GetDestinationUrl

SpecRouting == InitRouting /\ [][NextRouting]_vars

\* What the checks below read from a recorded lookup.
Called == lastCall # Pending

Returned == Called /\ ~lastCall.threw

CallMatches(i) == ruleMatches(lastCall.rules[i], normalizeContext(lastCall.context))

CallRuleIdx == 1..Len(lastCall.rules)

CallLink == selectLink(links, lastCall.linkId)[1]

(***************************************************************************)
(* C3.  Rules are evaluated in descending priority and the first match     *)
(* wins: when rules match, the returned URL is the target of a matching    *)
(* rule that no other matching rule exceeds in priority.                   *)
(***************************************************************************)
C3_HighestPriorityMatchWins ==
  (Returned /\ \E i \in CallRuleIdx : CallMatches(i))
  => \E i \in CallRuleIdx :
        /\ CallMatches(i)
        /\ lastCall.url = lastCall.rules[i].targetUrl
        /\ \A j \in CallRuleIdx :
              CallMatches(j) => lastCall.rules[j].priority <= lastCall.rules[i].priority

\* Scenario 2: geographic DE with priority 5 to A was inserted first, then
\* language en with priority 10 to B; the context {DE, en} was answered B.
C3_Witness ==
  /\ Returned
  /\ lastCall.linkId = "l1"
  /\ Len(routingRules) = 2
  /\ routingRules[1].linkId = "l1" /\ routingRules[2].linkId = "l1"
  /\ routingRules[1].ruleType = "geographic" /\ routingRules[1].priority = 5
  /\ routingRules[1].targetUrl = TargetA
  /\ routingRules[2].ruleType = "language" /\ routingRules[2].priority = 10
  /\ routingRules[2].targetUrl = TargetB
  /\ lastCall.context = Context(<<"D", "E">>, <<"e", "n">>, <<>>)
  /\ lastCall.url = TargetB

(***************************************************************************)
(* C4.  When no rule of the link matches the context, the link's own       *)
(* destinationUrl is returned.                                             *)
(***************************************************************************)
C4_FallbackIsDestinationUrl ==
  (Returned /\ \A i \in CallRuleIdx : ~CallMatches(i))
  => lastCall.url = CallLink.destinationUrl

\* A link with a rule that does not match the empty context {} was answered
\* with its own destination.
C4_Witness ==
  /\ Returned
  /\ lastCall.context = Context(<<>>, <<>>, <<>>)
  /\ Len(lastCall.rules) > 0
  /\ \A i \in CallRuleIdx : ~CallMatches(i)
  /\ lastCall.url = CallLink.destinationUrl

C6_FirstInsertedWinsTies ==
  Returned =>
    \A i, j \in CallRuleIdx :
       ( /\ CallMatches(i) /\ CallMatches(j)
         /\ lastCall.rules[i].priority = lastCall.rules[j].priority
         /\ \A k \in CallRuleIdx :
               CallMatches(k) => lastCall.rules[k].priority <= lastCall.rules[i].priority
         /\ lastCall.rules[i].id < lastCall.rules[j].id )
       => lastCall.url = lastCall.rules[i].targetUrl

(***************************************************************************)
(* C9.  A rule whose type is not geographic, language or device matches no *)
(* context, and the destination returned for its link is the one returned  *)
(* without it.                                                             *)
(***************************************************************************)
Recognized(rule) == rule.ruleType \in {"geographic", "language", "device"}

C9_UnrecognizedTypeNeverMatches ==
  Returned =>
    /\ \A i \in CallRuleIdx : ~Recognized(lastCall.rules[i]) => ~CallMatches(i)
    /\ lastCall.url =
         getDestinationUrl(<<CallLink>>, SelectSeq(lastCall.rules, Recognized),
                           lastCall.context).url

\* A link whose only rule is a time rule with condition {country: DE} was
\* looked up from DE and answered with its own destination.
C9_Witness ==
  /\ Returned
  /\ Len(lastCall.rules) = 1
  /\ lastCall.rules[1].ruleType = "time"
  /\ lastCall.rules[1].condition.country = <<"D", "E">>
  /\ lastCall.context.country = <<"D", "E">>
  /\ lastCall.url = CallLink.destinationUrl
  /\ lastCall.url # lastCall.rules[1].targetUrl

(***************************************************************************)
(* One link with a single rule, over every rule type and a wide range of   *)
(* conditions and contexts: what getDestinationUrl answers shows whether   *)
(* the rule matched.                                                       *)
(***************************************************************************)
CountryCodes == [1..2 -> {"D", "E", "d", "e"}]

LangChars == {"d", "e", "-", "D"}

GeoConditions ==
  {[NoCondition EXCEPT !.country = c, !.state = st, !.region = rg] :
     c \in {<<>>} \cup CountryCodes, st \in {<<>>, <<"N", "R", "W">>},
     rg \in {<<>>, <<"R", "u", "h", "r">>}}

ConditionLanguages ==
  {<<>>, <<"d">>, <<"D">>, <<"e">>, <<"d", "e">>, <<"d", "-">>, <<"d", "-", "e">>,
   <<"D", "-", "E">>}

LanguageConditions ==
  {[NoCondition EXCEPT !.language = l, !.locale = lc] :
     l \in ConditionLanguages, lc \in ConditionLanguages}

DeviceNames == {<<>>, <<"mobile">>, <<"desktop">>}

DeviceConditions ==
  {[NoCondition EXCEPT !.deviceType = dt, !.device = dv] :
     dt \in DeviceNames, dv \in DeviceNames}

MatchRuleInputs ==
  {[linkId |-> "l1", ruleType |-> t, condition |-> c, targetUrl |-> TargetA,
    priority |-> 0] :
     t \in RuleTypes, c \in GeoConditions \cup LanguageConditions \cup DeviceConditions}

MatchContexts ==
  {Context(c, <<"d", "e">>, <<>>) : c \in {<<>>} \cup CountryCodes}
  \cup {Context(<<"D", "E">>, l, <<>>) : l \in {<<>>} \cup Strs(LangChars, MaxLangLen)}
  \cup {Context(<<>>, <<>>, d) : d \in DeviceNames}

InitRuleMatch ==
  /\ links = RoutingLinks
  /\ routingRules \in {<<[id |-> 1] @@ in>> : in \in MatchRuleInputs}
  /\ lastCall = Pending
  /\ lastPreview = Pending
  /\ DomainIdle
  /\ AdminIdle
  /\ ExtIdle

EvaluateRule == GetDestinationUrlOver({"l1"}, MatchContexts)

NextRuleMatch == EvaluateRule

SpecRuleMatch == InitRuleMatch /\ [][NextRuleMatch]_vars

\* The single rule of the link looked up, and whether its target was chosen
\* (the target differs from the link's own destination).
TheRule == lastCall.rules[1]

RuleWon == lastCall.url = TheRule.targetUrl

IsBareLanguage(l) == l # <<>> /\ \A i \in 1..Len(l) : l[i] # "-"

IsLocaleOf(ctxLanguage, l) == startsWith(ctxLanguage, l \o <<"-">>)

C8_LanguageMatchIff ==
  (Returned /\ Len(lastCall.rules) = 1 /\ TheRule.ruleType = "language")
  => LET cond == TheRule.condition
         ctxLanguage == toLowerCase(lastCall.context.language)
     IN  RuleWon <=>
           \/ cond.language # <<>> /\ ctxLanguage = toLowerCase(cond.language)
           \/ cond.locale # <<>> /\ ctxLanguage = toLowerCase(cond.locale)
           \/ /\ IsBareLanguage(cond.language)
              /\ IsLocaleOf(ctxLanguage, toLowerCase(cond.language))

(***************************************************************************)
(* The link routes of server/routes.ts over the store: POST /api/links,    *)
(* PATCH /api/links/:id, POST /api/links/:linkId/routing-rules and         *)
(* GET /api/links/preview/:shortCode, each under the tenant that           *)
(* resolveTenant attached to the request (or none).                        *)
(***************************************************************************)
MaxLinks == 2
MaxLinkRules == 1

DEFAULT_TRUSTED_DOMAINS ==
  << <<"*", ".", "g", "o", "v", ".", "d", "e">>,
     <<"*", ".", "b", "u", "n", "d", ".", "d", "e">>,
     <<"*", ".", "b", "a", "y", "e", "r", "n", ".", "d", "e">>,
     <<"*", ".", "n", "r", "w", ".", "d", "e">>,
     <<"*", ".", "s", "a", "c", "h", "s", "e", "n", ".", "d", "e">>,
     <<"*", ".", "h", "e", "s", "s", "e", "n", ".", "d", "e">>,
     <<"*", ".", "n", "i", "e", "d", "e", "r", "s", "a", "c", "h", "s",
      "e", "n", ".", "d", "e">>,
     <<"*", ".", "b", "a", "d", "e", "n", "-", "w", "u", "e", "r", "t",
      "t", "e", "m", "b", "e", "r", "g", ".", "d", "e">>,
     <<"*", ".", "b", "e", "r", "l", "i", "n", ".", "d", "e">>,
     <<"*", ".", "h", "a", "m", "b", "u", "r", "g", ".", "d", "e">>,
     <<"*", ".", "b", "r", "e", "m", "e", "n", ".", "d", "e">>,
     <<"*", ".", "s", "a", "a", "r", "l", "a", "n", "d", ".", "d", "e">>,
     <<"*", ".", "s", "a", "c", "h", "s", "e", "n", "-", "a", "n", "h",
      "a", "l", "t", ".", "d", "e">>,
     <<"*", ".", "s", "c", "h", "l", "e", "s", "w", "i", "g", "-", "h",
      "o", "l", "s", "t", "e", "i", "n", ".", "d", "e">>,
     <<"*", ".", "t", "h", "u", "e", "r", "i", "n", "g", "e", "n", ".",
      "d", "e">>,
     <<"*", ".", "b", "r", "a", "n", "d", "e", "n", "b", "u", "r", "g",
      ".", "d", "e">>,
     <<"*", ".", "m", "e", "c", "k", "l", "e", "n", "b", "u", "r", "g",
      "-", "v", "o", "r", "p", "o", "m", "m", "e", "r", "n", ".", "d", "e">>,
     <<"*", ".", "r", "h", "e", "i", "n", "l", "a", "n", "d", "-", "p",
      "f", "a", "l", "z", ".", "d", "e">>,
     <<"*", ".", "e", "u", "r", "o", "p", "a", ".", "e", "u">>,
     <<"*", ".", "e", "c", ".", "e", "u", "r", "o", "p", "a", ".", "e",
      "u">> >>

\* Two tenants as configured by an administrator: one enforces its
\* whitelist, one keeps the default mode.
TenantTable ==
  [tA |-> [whitelistMode |-> "block",
           domainWhitelist |-> <<(<<"s", "t", "a", "d", "t", ".", "d", "e">>)>>],
   tB |-> [whitelistMode |-> "warn", domainWhitelist |-> <<>>]]

TenantIds == DOMAIN TenantTable

\* req.tenant of a request: a tenant id, or NoTenant.
RequestTenants == TenantIds \cup {NoTenant}

getDomainWhitelist(reqTenant) ==
  IF reqTenant # NoTenant THEN TenantTable[reqTenant].domainWhitelist ELSE <<>>

getWhitelistMode(reqTenant) ==
  IF reqTenant # NoTenant THEN TenantTable[reqTenant].whitelistMode ELSE "warn"

TrustedUrl == <<Scheme, "w", "w", "w", ".", "b", "u", "n", "d", ".", "d", "e">>
ListedUrl == <<Scheme, "s", "t", "a", "d", "t", ".", "d", "e">> \o <<"/", "a">>
EvilUrl == <<Scheme, "e", "v", "i", "l", ".", "c", "o", "m">>
RelativeUrl == <<"e", "v", "i", "l">>

DestinationInputs == {TrustedUrl, ListedUrl, EvilUrl, RelativeUrl}

LinkIdSeq == <<"l1", "l2", "l3", "l4">>

\* POST /api/links: the destination is validated under the request's tenant
\* (a rejection answers 400 and stores nothing); the link is stored with the
\* request's tenant.
CreateLink ==
  /\ Len(links) < MaxLinks
  /\ \E reqTenant \in RequestTenants, destinationUrl \in DestinationInputs :
       LET whitelist == DEFAULT_TRUSTED_DOMAINS \o getDomainWhitelist(reqTenant)
           whitelistMode == getWhitelistMode(reqTenant)
           validation == validateDestinationUrl(destinationUrl, whitelistMode, whitelist)
       IN  /\ validation.allowed
           /\ links' = Append(links,
                [id |-> LinkIdSeq[Len(links) + 1], destinationUrl |-> destinationUrl,
                 tenantId |-> reqTenant])
  /\ UNCHANGED <<routingRules, lastCall, lastPreview, domainVars, adminVars, extVars>>

\* PATCH /api/links/:id: updateLinkSchema requires destinationUrl to be a
\* URL (z.string().url()); storage.updateLink then sets it.
PatchLink ==
  /\ \E i \in 1..Len(links), destinationUrl \in DestinationInputs :
       /\ ParseUrl(destinationUrl).ok
       /\ links' = [links EXCEPT ![i].destinationUrl = destinationUrl]
  /\ UNCHANGED <<routingRules, lastCall, lastPreview, domainVars, adminVars, extVars>>

LinkRuleInputs ==
  {[linkId |-> l, ruleType |-> "language",
    condition |-> [NoCondition EXCEPT !.language = <<"e", "n">>],
    targetUrl |-> t, priority |-> 0] :
     l \in {"l1", "l2", "l3"}, t \in {TrustedUrl, EvilUrl}}

\* POST /api/links/:linkId/routing-rules: canAccessLink answers 404 for a
\* missing link; insertRoutingRuleSchema takes targetUrl as any text.
PostRoutingRule == CreateRoutingRuleOver(LinkRuleInputs, MaxLinkRules)

PreviewContexts ==
  {Context(<<"D", "E">>, l, <<"desktop">>) : l \in {<<"d", "e">>, <<"e", "n">>}}

\* GET /api/links/preview/:shortCode under the tenant of the request.
Preview ==
  /\ \E i \in 1..Len(links), reqTenant \in RequestTenants, context \in PreviewContexts :
       \E rules \in getRoutingRulesByLink(routingRules, links[i].id) :
          LET r == getDestinationUrl(selectLink(links, links[i].id), rules, context)
              whitelist == DEFAULT_TRUSTED_DOMAINS \o getDomainWhitelist(reqTenant)
          IN  /\ ~r.threw
              /\ lastPreview' = [linkId |-> links[i].id, tenantId |-> links[i].tenantId,
                                 destinationUrl |-> r.url,
                                 isExternalLink |-> isExternalLink(r.url, whitelist)]
  /\ UNCHANGED <<links, routingRules, lastCall, domainVars, adminVars, extVars>>

Init ==
  /\ links = <<>>
  /\ routingRules = <<>>
  /\ lastCall = Pending
  /\ lastPreview = Pending
  /\ DomainIdle
  /\ AdminIdle
  /\ ExtIdle

Next == CreateLink \/ PatchLink \/ PostRoutingRule \/ Preview

Spec == Init /\ [][Next]_vars

(***************************************************************************)
(* C1.  For a tenant in block mode, every destination the preview path     *)
(* returns for one of its links matches                                    *)
(* builtInTrustedDomains \cup tenant.domainWhitelist.                      *)
(***************************************************************************)
C1_ServedDestinationWhitelisted ==
  ( /\ lastPreview # Pending
    /\ lastPreview.tenantId # NoTenant
    /\ TenantTable[lastPreview.tenantId].whitelistMode = "block" )
  => matchesWhitelist(lastPreview.destinationUrl,
        DEFAULT_TRUSTED_DOMAINS \o TenantTable[lastPreview.tenantId].domainWhitelist)

(***************************************************************************)
(* normalizeDomainPattern and isValidDomainPattern (server/lib/domain.ts). *)
(* A pattern may carry either scheme; "http://" is the single element      *)
(* HttpScheme.  A scheme that is not at the start of the trimmed string is *)
(* not removed by the anchored replace, and split("/")[0] then cuts it at  *)
(* its first slash, leaving "https:" or "http:".                           *)
(***************************************************************************)
MaxPatLen == 4

HttpScheme == "http://"

SchemeTokens == {Scheme, HttpScheme}

SchemeRemnant(tok) == IF tok = Scheme THEN "https:" ELSE "http:"

\* s.split("/")[0]
RECURSIVE splitSlashFirst(_)
splitSlashFirst(s) ==
  IF s = <<>> \/ Head(s) = "/" THEN <<>>
  ELSE IF Head(s) \in SchemeTokens THEN <<SchemeRemnant(Head(s))>>
  ELSE <<Head(s)>> \o splitSlashFirst(Tail(s))

\* s.replace(/^https?:\/\//, "")
stripProtocol(s) ==
  IF s # <<>> /\ Head(s) \in SchemeTokens THEN Tail(s) ELSE s

normalizeDomainPattern(pattern) ==
  LET lowered == trim(toLowerCase(pattern))
  IN  splitSlashFirst(stripProtocol(lowered))

NormalizeChars == {"a", "A", ".", "/", " ", Scheme, HttpScheme}

NormalizeInputs == Strs(NormalizeChars, MaxPatLen)

InitNormalize ==
  /\ dUrl = <<>>
  /\ dMode = "warn"
  /\ dWhitelist \in {<<p>> : p \in NormalizeInputs}
  /\ dRet = Pending
  /\ StoreIdle
  /\ AdminIdle
  /\ ExtIdle

\* normalizeDomainPattern applied to the pattern of the request.
CallNormalizeDomainPattern ==
  /\ dRet = Pending
  /\ dRet' = [fn |-> "normalizeDomainPattern", pass |-> 1,
              arg |-> dWhitelist[1],
              ret |-> normalizeDomainPattern(dWhitelist[1])]
  /\ UNCHANGED <<dUrl, dMode, dWhitelist, storeVars, adminVars, extVars>>

\* normalizeDomainPattern applied to its own result, as when a stored
\* pattern is submitted again.
CallNormalizeAgain ==
  /\ dRet # Pending
  /\ dRet.fn = "normalizeDomainPattern"
  /\ dRet.pass = 1
  /\ dRet' = [fn |-> "normalizeDomainPattern", pass |-> 2,
              arg |-> dRet.ret,
              ret |-> normalizeDomainPattern(dRet.ret)]
  /\ UNCHANGED <<dUrl, dMode, dWhitelist, storeVars, adminVars, extVars>>

NextNormalize == CallNormalizeDomainPattern \/ CallNormalizeAgain

SpecNormalize == InitNormalize /\ [][NextNormalize]_vars

(***************************************************************************)
(* C11.  normalizeDomainPattern is idempotent: applied to its own result   *)
(* it returns that result unchanged, for every input, including inputs     *)
(* with whitespace after a protocol prefix or before a path separator.     *)
(***************************************************************************)
C11_NormalizeIdempotent ==
  (dRet # Pending /\ dRet.fn = "normalizeDomainPattern" /\ dRet.pass = 2)
  => dRet.ret = dRet.arg

(***************************************************************************)
(* isValidDomainPattern: the normal form must be at least three characters *)
(* long and match the validPattern expression: an optional "*." prefix,    *)
(* one or more labels (a letter or digit, then letters, digits, hyphens)   *)
(* separated by dots, and a final label of two or more letters.            *)
(***************************************************************************)
Letters == DOMAIN UpperMap

Digits == {"0", "1"}

\* The number of characters an element of a string stands for.
TokenLength(tok) ==
  CASE tok = Scheme -> 8
    [] tok = HttpScheme -> 7
    [] tok = "https:" -> 6
    [] tok = "http:" -> 5
    [] OTHER -> 1

RECURSIVE length(_)
length(s) == IF s = <<>> THEN 0 ELSE TokenLength(Head(s)) + length(Tail(s))

RECURSIVE splitDots(_)
splitDots(s) ==
  LET dots == {i \in 1..Len(s) : s[i] = "."}
  IN  IF dots = {} THEN <<s>>
      ELSE LET i == CHOOSE j \in dots : \A k \in dots : j <= k
           IN  <<SubSeq(s, 1, i - 1)>> \o splitDots(SubSeq(s, i + 1, Len(s)))

\* A label: a letter or digit, then letters, digits or hyphens.
IsLabel(l) ==
  /\ l # <<>>
  /\ l[1] \in Letters \cup Digits
  /\ \A i \in 2..Len(l) : l[i] \in Letters \cup Digits \cup {"-"}

\* The final label: two or more letters.
IsTopLevel(l) ==
  /\ Len(l) >= 2
  /\ \A i \in 1..Len(l) : l[i] \in Letters

validPattern(s) ==
  LET rest == IF startsWith(s, <<"*", ".">>) THEN slice(s, 2) ELSE s
      labels == splitDots(rest)
  IN  /\ Len(labels) >= 2
      /\ \A i \in 1..(Len(labels) - 1) : IsLabel(labels[i])
      /\ IsTopLevel(labels[Len(labels)])

isValidDomainPattern(pattern) ==
  LET normalized == normalizeDomainPattern(pattern)
  IN  IF normalized = <<>> \/ length(normalized) < 3 THEN FALSE
      ELSE validPattern(normalized)

(***************************************************************************)
(* Tenant administration (server/routes/ai.ts): POST /api/tenants,         *)
(* PATCH /api/tenants/:id and PATCH /api/tenants/:id/privacy-settings,     *)
(* over the tenants table.                                                 *)
(***************************************************************************)
MaxWhitelistReq == 2

roleHierarchy == [federal |-> 3, state |-> 2, local |-> 1]

requireRole(user, allowedRole) ==
  roleHierarchy[user.role] >= roleHierarchy[allowedRole]

TenantIdSeq == <<"tA", "tB", "tC">>

\* Slugs that match /^[a-z0-9-]+$/ and one that does not.  Slugs are unique,
\* so the table holds at most one tenant per valid slug.
ValidSlugs == {"bmi", "muc"}

SlugInputs == ValidSlugs \cup {"BMI"}

AdminUsers ==
  {[role |-> "federal", tenantId |-> NoTenant],
   [role |-> "state", tenantId |-> "tA"]}

\* "https://A.de/a" (valid, not in normal form, "a.de" once normalized),
\* "*.de" and "a.de /a" (invalid).
PatternPool ==
  {<<Scheme, "A", ".", "d", "e", "/", "a">>,
   <<"*", ".", "d", "e">>,
   <<"a", ".", "d", "e", " ", "/", "a">>}

\* Request bodies: domainWhitelist absent, or a list of patterns.
TenantBodies ==
  {[hasWhitelist |-> FALSE, domainWhitelist |-> <<>>]}
  \cup {[hasWhitelist |-> TRUE, domainWhitelist |-> w] :
          w \in SeqsUpTo(PatternPool, MaxWhitelistReq)}

\* Mutation: only the first pattern of the list is validated.
hasInvalidPattern_FirstOnly(whitelist) ==
  whitelist # <<>> /\ ~isValidDomainPattern(whitelist[1])

\* The validation loop of the three routes: some pattern of the list fails
\* isValidDomainPattern.
hasInvalidPattern(whitelist) ==
  \E i \in 1..Len(whitelist) : ~isValidDomainPattern(whitelist[i])

getTenant(table, id) == SelectSeq(table, LAMBDA t : t.id = id)

getTenantBySlug(table, slug) == SelectSeq(table, LAMBDA t : t.slug = slug)

\* storage.updateTenant: set the fields the update carries.
updateTenant(table, id, hasWhitelist, whitelist) ==
  [i \in 1..Len(table) |->
     IF table[i].id = id /\ hasWhitelist
     THEN [table[i] EXCEPT !.domainWhitelist = whitelist]
     ELSE table[i]]

\* The request held a pattern that isValidDomainPattern refuses.
BodyInvalid(body) ==
  /\ body.hasWhitelist
  /\ \E i \in 1..Len(body.domainWhitelist) :
        ~isValidDomainPattern(body.domainWhitelist[i])

TenantResponse(route, status, body, table) ==
  /\ tenants' = table
  /\ lastTenantReq' = [route |-> route, status |-> status,
                       invalid |-> BodyInvalid(body),
                       changed |-> table # tenants]

\* POST /api/tenants
CreateTenant ==
  \E user \in AdminUsers, slug \in SlugInputs, body \in TenantBodies :
    LET status ==
          IF ~requireRole(user, "federal") THEN 403
          ELSE IF slug \notin ValidSlugs THEN 400
          ELSE IF getTenantBySlug(tenants, slug) # <<>> THEN 409
          ELSE IF body.hasWhitelist /\ hasInvalidPattern(body.domainWhitelist) THEN 400
          ELSE 201
        row == [id |-> TenantIdSeq[Len(tenants) + 1], slug |-> slug,
                domainWhitelist |-> body.domainWhitelist, isActive |-> TRUE]
    IN  /\ TenantResponse("POST /api/tenants", status, body,
                          IF status = 201 THEN Append(tenants, row) ELSE tenants)
        /\ UNCHANGED <<domainVars, storeVars, cacheVars, retentionVars, extVars>>

\* The two update routes share the handler body up to the schema.
PatchTenantVia(route) ==
  \E user \in AdminUsers, k \in 1..(Len(tenants) + 1), body \in TenantBodies :
    LET id == TenantIdSeq[k]
        tenant == getTenant(tenants, id)
        status ==
          IF ~requireRole(user, "state") THEN 403
          ELSE IF tenant = <<>> THEN 404
          ELSE IF user.role # "federal" /\ user.tenantId # tenant[1].id THEN 403
          ELSE IF body.hasWhitelist /\ hasInvalidPattern(body.domainWhitelist) THEN 400
          ELSE 200
        normalized ==
          [i \in 1..Len(body.domainWhitelist) |->
             normalizeDomainPattern(body.domainWhitelist[i])]
    IN  /\ TenantResponse(route, status, body,
                          IF status = 200
                          THEN updateTenant(tenants, id, body.hasWhitelist, normalized)
                          ELSE tenants)
        /\ UNCHANGED <<domainVars, storeVars, cacheVars, retentionVars, extVars>>

\* PATCH /api/tenants/:id
PatchTenant == PatchTenantVia("PATCH /api/tenants/:id")

\* PATCH /api/tenants/:id/privacy-settings
PatchPrivacySettings == PatchTenantVia("PATCH /api/tenants/:id/privacy-settings")

InitTenants ==
  /\ tenants = <<>>
  /\ lastTenantReq = Pending
  /\ DomainIdle
  /\ StoreIdle
  /\ CacheIdle
  /\ RetentionIdle
  /\ ExtIdle

NextTenants == CreateTenant \/ PatchTenant \/ PatchPrivacySettings

SpecTenants == InitTenants /\ [][NextTenants]_vars

(***************************************************************************)
(* C12.  After any sequence of tenant create, tenant update and            *)
(* privacy-settings update requests, every pattern stored in a tenant's    *)
(* domainWhitelist satisfies isValidDomainPattern, and a request that      *)
(* holds an invalid pattern is rejected and leaves the table unchanged.    *)
(***************************************************************************)
C12_StoredPatternsValid ==
  /\ \A i \in 1..Len(tenants) :
       \A j \in 1..Len(tenants[i].domainWhitelist) :
          isValidDomainPattern(tenants[i].domainWhitelist[j])
  /\ (lastTenantReq # Pending /\ lastTenantReq.invalid)
       => (lastTenantReq.status \in {400, 403, 404, 409} /\ ~lastTenantReq.changed)

\* A tenant with a stored whitelist has just had an update refused for an
\* invalid pattern.
C12_Witness ==
  /\ lastTenantReq # Pending
  /\ lastTenantReq.route = "PATCH /api/tenants/:id"
  /\ lastTenantReq.invalid
  /\ lastTenantReq.status = 400
  /\ \E i \in 1..Len(tenants) : tenants[i].domainWhitelist # <<>>

(***************************************************************************)
(* Tenant resolution (server/middleware/tenant.ts).  Time is counted in    *)
(* minutes.  A request is suspended wherever the code awaits the store:    *)
(* at "query" inside refreshDomainCache, at "byId" inside getTenantById;   *)
(* at "read" it has left refreshDomainCache and is about to read the map.  *)
(* Everything between two awaits runs without interruption.                *)
(***************************************************************************)
CACHE_TTL == 1

MaxTime == 4
MaxRequests == 2

\* The custom_domains table: domains are unique and stored in lower case.
CustomDomainRows ==
  {[domain |-> <<"a">>, tenantId |-> "tA"],
   [domain |-> <<"b">>, tenantId |-> "tB"]}

CacheTenants ==
  <<[id |-> "tA", slug |-> "bmi", domainWhitelist |-> <<>>, isActive |-> TRUE],
    [id |-> "tB", slug |-> "muc", domainWhitelist |-> <<>>, isActive |-> TRUE]>>

\* customDomains joined with the active tenants.
refreshQuery(table) ==
  {d \in CustomDomainRows :
     \E i \in 1..Len(table) : table[i].id = d.tenantId /\ table[i].isActive}

\* Mutation: the map is not cleared before the rows are set.
rebuild_Merge(cache, domains) ==
  LET fresh == [k \in {toLowerCase(d.domain) : d \in domains} |->
                  (CHOOSE d \in domains : toLowerCase(d.domain) = k).tenantId]
  IN  [k \in DOMAIN cache \cup DOMAIN fresh |->
         IF k \in DOMAIN fresh THEN fresh[k] ELSE cache[k]]

\* domainCache.clear() followed by domainCache.set for every row.
rebuild(cache, domains) ==
  [k \in {toLowerCase(d.domain) : d \in domains} |->
     (CHOOSE d \in domains : toLowerCase(d.domain) = k).tenantId]

\* Mutation: the map is cleared before the query is awaited, so a failed
\* query leaves it empty.
cacheAfterFailedRefresh_Cleared(cache) == <<>>

\* The catch block of refreshDomainCache: the map is not touched.
cacheAfterFailedRefresh(cache) == cache

\* domainCache.get(normalizedHostname)
domainCacheGet(cache, key) ==
  IF key \in DOMAIN cache THEN cache[key] ELSE NoTenant

isStale(t, last) == t - last > CACHE_TTL

getTenantById(table, tenantId) ==
  LET rows == getTenant(table, tenantId)
  IN  IF rows = <<>> THEN NoTenant ELSE rows[1].id

\* Mutation: the user's tenant is fetched whenever the user has one.
needsUserTenant_UserFirst(tenant, userTenantId) == userTenantId # NoTenant

\* !tenant && req.user && req.user.tenantId
needsUserTenant(tenant, userTenantId) ==
  tenant = NoTenant /\ userTenantId # NoTenant

Requests == 1..MaxRequests

\* Host headers: a custom domain in upper case, and none.
RequestHosts == {<<"A">>, <<>>}

RequestUsers == {NoTenant, "tB"}

\* A request before it arrives.  snapshot holds the rows its refresh query
\* has read until they are installed.  While the rows are on their way,
\* newer holds the requests whose query the store ran later, and
\* newerInstalled tells that one of those has installed its rows;
\* overwroteNewer records that the request then installed different rows
\* over them.
IdleRequest ==
  [pc |-> "idle", hostname |-> <<>>, userTenantId |-> NoTenant,
   refreshFailed |-> FALSE, cached |-> NoTenant, tenant |-> NoTenant,
   snapshot |-> {}, newer |-> {}, newerInstalled |-> FALSE,
   overwroteNewer |-> FALSE]

\* resolveTenant once getTenantByDomain has returned cachedTenant.
afterLookup(q, cachedTenant) ==
  IF needsUserTenant(cachedTenant, q.userTenantId)
  THEN [q EXCEPT !.pc = "byId", !.cached = cachedTenant]
  ELSE [q EXCEPT !.pc = "done", !.cached = cachedTenant, !.tenant = cachedTenant]

\* A request enters resolveTenant and getTenantByDomain.
Arrive(r) ==
  /\ req[r].pc = "idle"
  /\ \E hostname \in RequestHosts, user \in RequestUsers :
       LET q == [req[r] EXCEPT !.hostname = hostname, !.userTenantId = user]
       IN  req' = [req EXCEPT ![r] =
                     IF hostname = <<>> THEN afterLookup(q, NoTenant)
                     ELSE IF isStale(now, lastCacheRefresh)
                          THEN [q EXCEPT !.pc = "query"]
                          ELSE afterLookup(q, domainCacheGet(domainCache,
                                                             toLowerCase(hostname)))]
  /\ UNCHANGED <<domainCache, lastCacheRefresh, now, lastDomains,
                 tenantVars, domainVars, storeVars, retentionVars, extVars>>

\* The store runs the query of refreshDomainCache: the rows are those of
\* the tables at this moment; the result is on its way to the caller.
QueryExecutes(r) ==
  /\ req[r].pc = "query"
  /\ req' = [q \in Requests |->
               IF q = r
               THEN [req[q] EXCEPT !.pc = "result", !.snapshot = refreshQuery(tenants)]
               ELSE IF req[q].pc = "result"
               THEN [req[q] EXCEPT !.newer = @ \cup {r}]
               ELSE req[q]]
  /\ UNCHANGED <<domainCache, lastCacheRefresh, now, lastDomains,
                 tenantVars, domainVars, storeVars, retentionVars, extVars>>

\* The store query of refreshDomainCache returns: the map is replaced by
\* the rows the query read.
QuerySucceeds(r) ==
  /\ req[r].pc = "result"
  /\ LET domains == req[r].snapshot
     IN  /\ domainCache' = rebuild(domainCache, domains)
         /\ lastDomains' = domains
  /\ lastCacheRefresh' = now
  /\ req' = [q \in Requests |->
               IF q = r
               THEN [req[q] EXCEPT !.pc = "read", !.snapshot = {}, !.newer = {},
                                   !.newerInstalled = FALSE,
                                   !.overwroteNewer = /\ req[r].newerInstalled
                                                      /\ req[r].snapshot # lastDomains]
               ELSE IF req[q].pc = "result" /\ r \in req[q].newer
               THEN [req[q] EXCEPT !.newerInstalled = TRUE, !.newer = {}]
               ELSE req[q]]
  /\ UNCHANGED <<now, tenantVars, domainVars, storeVars, retentionVars, extVars>>

\* The store query of refreshDomainCache fails.
QueryFails(r) ==
  /\ req[r].pc = "query"
  /\ domainCache' = cacheAfterFailedRefresh(domainCache)
  /\ req' = [req EXCEPT ![r].pc = "read", ![r].refreshFailed = TRUE]
  /\ UNCHANGED <<lastCacheRefresh, now, lastDomains, tenantVars, domainVars, storeVars, retentionVars, extVars>>

\* getTenantByDomain returns domainCache.get(normalizedHostname).
ReadCache(r) ==
  /\ req[r].pc = "read"
  /\ req' = [req EXCEPT ![r] =
               afterLookup(req[r], domainCacheGet(domainCache,
                                                  toLowerCase(req[r].hostname)))]
  /\ UNCHANGED <<domainCache, lastCacheRefresh, now, lastDomains,
                 tenantVars, domainVars, storeVars, retentionVars, extVars>>

\* getTenantById returns, or fails and the request continues without tenant.
GetTenantById(r) ==
  /\ req[r].pc = "byId"
  /\ \E failed \in BOOLEAN :
       req' = [req EXCEPT ![r].pc = "done",
                          ![r].tenant = IF failed THEN NoTenant
                                        ELSE getTenantById(tenants, req[r].userTenantId)]
  /\ UNCHANGED <<domainCache, lastCacheRefresh, now, lastDomains,
                 tenantVars, domainVars, storeVars, retentionVars, extVars>>

Tick ==
  /\ now < MaxTime
  /\ now' = now + 1
  /\ UNCHANGED <<domainCache, lastCacheRefresh, req, lastDomains,
                 tenantVars, domainVars, storeVars, retentionVars, extVars>>

\* The tenants an administrator deactivates and reactivates: the owner of
\* the domain that requests look up.
ToggledTenants == {"tA"}

\* PATCH /api/tenants/:id with isActive.
SetTenantActive ==
  /\ \E i \in 1..Len(tenants), active \in BOOLEAN :
       /\ tenants[i].id \in ToggledTenants
       /\ tenants[i].isActive # active
       /\ tenants' = [tenants EXCEPT ![i].isActive = active]
  /\ UNCHANGED <<lastTenantReq, cacheVars, domainVars, storeVars, retentionVars, extVars>>

\* The state once initializeTenantCache has run: its refresh has installed
\* the map, or has failed and left the map empty.
InitCache ==
  /\ tenants = CacheTenants
  /\ lastTenantReq = Pending
  /\ now = CACHE_TTL + 1
  /\ req = [r \in Requests |-> IdleRequest]
  /\ \/ /\ domainCache = <<>>
        /\ lastCacheRefresh = 0
        /\ lastDomains = {}
     \/ /\ domainCache = rebuild(<<>>, refreshQuery(CacheTenants))
        /\ lastCacheRefresh = now
        /\ lastDomains = refreshQuery(CacheTenants)
  /\ DomainIdle
  /\ StoreIdle
  /\ RetentionIdle
  /\ ExtIdle

NextCache ==
  \/ \E r \in Requests : Arrive(r)
  \/ \E r \in Requests : QueryExecutes(r)
  \/ \E r \in Requests : QuerySucceeds(r)
  \/ \E r \in Requests : QueryFails(r)
  \/ \E r \in Requests : ReadCache(r)
  \/ \E r \in Requests : GetTenantById(r)
  \/ Tick
  \/ SetTenantActive

SpecCache == InitCache /\ [][NextCache]_vars

C14_AtMostOneRefresh ==
  Cardinality({r \in Requests : req[r].pc \in {"query", "result"}}) <= 1

(***************************************************************************)
(* C15.  A lookup that arrives while the cache is stale, or while the      *)
(* store query of a refresh is outstanding, is answered from the installed *)
(* map without waiting for a refresh: no request is ever suspended on the  *)
(* store query of refreshDomainCache.                                      *)
(***************************************************************************)
C15_ReadersNotBlocked ==
  \A r \in Requests : req[r].pc \notin {"query", "result"}

\* The map that holds exactly the given rows.
CompleteMap(rows) ==
  [k \in {toLowerCase(d.domain) : d \in rows} |->
     (CHOOSE d \in rows : toLowerCase(d.domain) = k).tenantId]

(***************************************************************************)
(* C16.  The domain cache is replaced atomically: in every state a lookup  *)
(* can observe, the map holds exactly the rows of the latest successful    *)
(* refresh query (the previous map until the new one is installed), never  *)
(* an emptied or partially filled map.                                     *)
(***************************************************************************)
C16_CacheReplacedAtomically ==
  domainCache = CompleteMap(lastDomains)

\* A lookup has observed the previous map (tenant tA on its domain) and a
\* later refresh has installed a map without that domain.
C16_Witness ==
  /\ \E r \in Requests : req[r].pc = "done" /\ req[r].cached = "tA"
  /\ <<"a">> \notin DOMAIN domainCache
  /\ <<"b">> \in DOMAIN domainCache
  /\ lastCacheRefresh > CACHE_TTL + 1

DefaultAnalyticsRetentionDays == 90
DefaultAuditLogRetentionDays == 365

MaxRows == 2
MaxAuditRows == 1
MaxDays == 1

DEFAULT_PRIVACY_SETTINGS ==
  [isNull |-> FALSE,
   ipAnonymization |-> "full",
   analyticsRetentionDays |-> DefaultAnalyticsRetentionDays,
   auditLogRetentionDays |-> DefaultAuditLogRetentionDays,
   collectReferrer |-> FALSE,
   collectDeviceType |-> TRUE,
   collectGeoData |-> TRUE]

\* tenant.privacySettings when the column is null.
NullSettings ==
  [isNull |-> TRUE, analyticsRetentionDays |-> 0, auditLogRetentionDays |-> 0]

\* Two links of tenant tA, one of tenant tB and one of no tenant.
RetentionLinks ==
  <<[id |-> "l1", destinationUrl |-> Dest1, tenantId |-> "tA"],
    [id |-> "l2", destinationUrl |-> Dest2, tenantId |-> "tB"],
    [id |-> "l3", destinationUrl |-> Dest1, tenantId |-> NoTenant],
    [id |-> "l4", destinationUrl |-> Dest2, tenantId |-> "tA"]>>

\* cutoffDate.setDate(cutoffDate.getDate() - retentionDays)
cutoffDate(day, retentionDays) == day - retentionDays

\* DatabaseStorage.cleanupOldAnalytics: the rows that remain.
cleanupOldAnalytics(rows, day, retentionDays) ==
  {a \in rows : ~(a.clickedAt < cutoffDate(day, retentionDays))}

\* Mutation: the links of every tenant are returned.
getLinksByTenant_All(table, tenantId) == table

getLinksByTenant(table, tenantId) ==
  SelectSeq(table, LAMBDA l : l.tenantId = tenantId)

\* The delete loop of cleanupTenantAnalytics over the first k links.
RECURSIVE deleteLinkAnalytics(_, _, _, _)
deleteLinkAnalytics(rows, tenantLinks, k, cutoff) ==
  IF k = 0 THEN rows
  ELSE {a \in deleteLinkAnalytics(rows, tenantLinks, k - 1, cutoff) :
          ~(a.linkId = tenantLinks[k].id /\ a.clickedAt < cutoff)}

\* DatabaseStorage.cleanupTenantAnalytics: the rows that remain.
cleanupTenantAnalytics(rows, linkTable, tenantId, day, retentionDays) ==
  LET tenantLinks == getLinksByTenant(linkTable, tenantId)
  IN  deleteLinkAnalytics(rows, tenantLinks, Len(tenantLinks),
                          cutoffDate(day, retentionDays))

\* DatabaseStorage.cleanupTenantAuditLogs: the rows that remain.
cleanupTenantAuditLogs(rows, tenantId, day, retentionDays) ==
  {g \in rows : ~(g.tenantId = tenantId
                    /\ g.createdAt < cutoffDate(day, retentionDays))}

\* tenant.privacySettings || DEFAULT_PRIVACY_SETTINGS
settingsOf(tenant) ==
  IF tenant.privacySettings.isNull THEN DEFAULT_PRIVACY_SETTINGS
  ELSE tenant.privacySettings

\* Mutation: a failing tenant ends the loop.
afterTenantFailure_Abort(i, n) == n + 1

\* The catch inside the loop: the loop goes on with the next tenant.
afterTenantFailure(i, n) == i + 1

\* Mutation: the failure of step 1 is swallowed and the loop is entered.
pcAfterPlatformFailure_Continue == "loop"

\* The outer catch: the run ends without per-tenant cleanup.
pcAfterPlatformFailure == "aborted"

\* previous is the way the run before this one ended; platformFailed tells
\* that step 1 or getTenants raised in this run.
JobIdle ==
  [pc |-> "idle", i |-> 0, cleaned |-> {}, failed |-> {}, deletedAnalytics |-> 0,
   previous |-> "none", platformFailed |-> FALSE]

AnalyticsAges == {0, 1, 91, 400}

AuditAges == {1, 400}

AnalyticsRowInputs ==
  {[linkId |-> RetentionLinks[k].id, clickedAt |-> 0 - age] :
     k \in 1..Len(RetentionLinks), age \in AnalyticsAges}

AuditRowInputs ==
  {[tenantId |-> t, createdAt |-> 0 - age] : t \in {"tA", "tB"}, age \in AuditAges}

SubsetsUpTo(S, n) == {T \in SUBSET S : Cardinality(T) <= n}

\* Tenant tA with its own retention settings, tenant tB with none.
RetentionTenantInputs ==
  {<<[id |-> "tA", slug |-> "bmi", domainWhitelist |-> <<>>, isActive |-> TRUE,
      privacySettings |-> [isNull |-> FALSE, analyticsRetentionDays |-> n,
                           auditLogRetentionDays |-> m]],
     [id |-> "tB", slug |-> "muc", domainWhitelist |-> <<>>, isActive |-> active,
      privacySettings |-> NullSettings]>> :
     n \in {0, 1, 365}, m \in {0, 365}, active \in BOOLEAN}

\* runRetentionCleanup is invoked.
StartRetentionCleanup ==
  /\ job.pc = "idle"
  /\ job' = [job EXCEPT !.pc = "platform"]
  /\ UNCHANGED <<analytics, auditLogs, today,
                 domainVars, storeVars, tenantVars, cacheVars, extVars>>

\* Step 1, cleanupOldAnalytics with the default window, then getTenants.
PlatformCleanup ==
  /\ job.pc = "platform"
  /\ analytics' = cleanupOldAnalytics(analytics, today, DefaultAnalyticsRetentionDays)
  /\ job' = [job EXCEPT !.pc = "loop", !.i = 1,
                        !.deletedAnalytics = Cardinality(analytics \ analytics')]
  /\ UNCHANGED <<auditLogs, today, domainVars, storeVars, tenantVars, cacheVars, extVars>>

\* Step 1 or getTenants raises: the outer catch ends the run.
PlatformCleanupFails ==
  /\ job.pc = "platform"
  /\ \E deleted \in BOOLEAN :
       analytics' = IF deleted
                    THEN cleanupOldAnalytics(analytics, today,
                                             DefaultAnalyticsRetentionDays)
                    ELSE analytics
  /\ job' = [job EXCEPT !.pc = pcAfterPlatformFailure, !.i = 1,
                        !.platformFailed = TRUE]
  /\ UNCHANGED <<auditLogs, today, domainVars, storeVars, tenantVars, cacheVars, extVars>>

\* if (!tenant.isActive) continue
SkipInactiveTenant ==
  /\ job.pc = "loop"
  /\ job.i <= Len(tenants)
  /\ ~tenants[job.i].isActive
  /\ job' = [job EXCEPT !.i = job.i + 1]
  /\ UNCHANGED <<analytics, auditLogs, today,
                 domainVars, storeVars, tenantVars, cacheVars, extVars>>

\* cleanupTenantAnalytics of the current tenant returns.
TenantAnalyticsCleanup ==
  /\ job.pc = "loop"
  /\ job.i <= Len(tenants)
  /\ tenants[job.i].isActive
  /\ analytics' = cleanupTenantAnalytics(analytics, links, tenants[job.i].id, today,
                     settingsOf(tenants[job.i]).analyticsRetentionDays)
  /\ job' = [job EXCEPT !.pc = "audit",
                        !.deletedAnalytics = Cardinality(analytics \ analytics')]
  /\ UNCHANGED <<auditLogs, today, domainVars, storeVars, tenantVars, cacheVars, extVars>>

\* cleanupTenantAnalytics raises after the deletes of its first k links.
TenantAnalyticsCleanupFails ==
  /\ job.pc = "loop"
  /\ job.i <= Len(tenants)
  /\ tenants[job.i].isActive
  /\ LET tenantLinks == getLinksByTenant(links, tenants[job.i].id)
         cutoff == cutoffDate(today, settingsOf(tenants[job.i]).analyticsRetentionDays)
     IN  \E k \in 0..Len(tenantLinks) :
           /\ k < Len(tenantLinks) \/ k = 0
           /\ analytics' = deleteLinkAnalytics(analytics, tenantLinks, k, cutoff)
  /\ job' = [job EXCEPT !.i = afterTenantFailure(job.i, Len(tenants)),
                        !.failed = job.failed \cup {tenants[job.i].id}]
  /\ UNCHANGED <<auditLogs, today, domainVars, storeVars, tenantVars, cacheVars, extVars>>

\* cleanupTenantAuditLogs of the current tenant returns.
TenantAuditCleanup ==
  /\ job.pc = "audit"
  /\ auditLogs' = cleanupTenantAuditLogs(auditLogs, tenants[job.i].id, today,
                     settingsOf(tenants[job.i]).auditLogRetentionDays)
  /\ job' = [job EXCEPT !.pc = "loop", !.i = job.i + 1,
                        !.cleaned = job.cleaned \cup {tenants[job.i].id}]
  /\ UNCHANGED <<analytics, today, domainVars, storeVars, tenantVars, cacheVars, extVars>>

\* cleanupTenantAuditLogs raises.
TenantAuditCleanupFails ==
  /\ job.pc = "audit"
  /\ job' = [job EXCEPT !.pc = "loop",
                        !.i = afterTenantFailure(job.i, Len(tenants)),
                        !.failed = job.failed \cup {tenants[job.i].id}]
  /\ UNCHANGED <<analytics, auditLogs, today,
                 domainVars, storeVars, tenantVars, cacheVars, extVars>>

\* The loop has passed the last tenant.
FinishRetentionCleanup ==
  /\ job.pc = "loop"
  /\ job.i > Len(tenants)
  /\ job' = [job EXCEPT !.pc = "done"]
  /\ UNCHANGED <<analytics, auditLogs, today,
                 domainVars, storeVars, tenantVars, cacheVars, extVars>>

\* setInterval(runRetentionCleanup, ONE_DAY_MS): the next day's run is due.
DayPasses ==
  /\ job.pc \in {"done", "aborted"}
  /\ today < MaxDays
  /\ today' = today + 1
  /\ job' = [JobIdle EXCEPT !.previous = job.pc]
  /\ UNCHANGED <<analytics, auditLogs, domainVars, storeVars, tenantVars, cacheVars, extVars>>

InitRetention ==
  /\ tenants \in RetentionTenantInputs
  /\ lastTenantReq = Pending
  /\ links = RetentionLinks
  /\ routingRules = <<>>
  /\ lastCall = Pending
  /\ lastPreview = Pending
  /\ analytics \in SubsetsUpTo(AnalyticsRowInputs, MaxRows)
  /\ auditLogs \in SubsetsUpTo(AuditRowInputs, MaxAuditRows)
  /\ today = 0
  /\ job = JobIdle
  /\ DomainIdle
  /\ CacheIdle
  /\ ExtIdle

NextRetention ==
  \/ StartRetentionCleanup
  \/ PlatformCleanup
  \/ PlatformCleanupFails
  \/ SkipInactiveTenant
  \/ TenantAnalyticsCleanup
  \/ TenantAnalyticsCleanupFails
  \/ TenantAuditCleanup
  \/ TenantAuditCleanupFails
  \/ FinishRetentionCleanup
  \/ DayPasses

SpecRetention == InitRetention /\ [][NextRetention]_vars

\* The tenant that owns the link of an analytics row.
LinkTenant(linkId) ==
  (CHOOSE l \in {links[k] : k \in 1..Len(links)} : l.id = linkId).tenantId

C19_PlatformStepOnlyTenantless ==
  [][(job.pc = "platform")
       => \A a \in analytics \ analytics' :
             /\ LinkTenant(a.linkId) = NoTenant
             /\ a.clickedAt < today - DefaultAnalyticsRetentionDays
    ]_vars

(***************************************************************************)
(* C20.  Partial-failure isolation: when the cleanup of a tenant raises,   *)
(* the run goes on; a run that has ended its loop has attempted the        *)
(* cleanup of every active tenant, those after a failing one included.     *)
(***************************************************************************)
C20_FailureIsolated ==
  job.pc = "done"
    => \A i \in 1..Len(tenants) :
          tenants[i].isActive => tenants[i].id \in job.cleaned \cup job.failed

\* The cleanup of tA raised and the same run has cleaned tB after it.
C20_Witness ==
  /\ job.pc = "done"
  /\ "tA" \in job.failed
  /\ "tB" \in job.cleaned

\* The expired rows of a tenant: what its cleanup is to delete.
ExpiredAnalytics(t) ==
  {a \in analytics : /\ LinkTenant(a.linkId) = t.id
                     /\ a.clickedAt < today - settingsOf(t).analyticsRetentionDays}

ExpiredAuditLogs(t) ==
  {g \in auditLogs : /\ g.tenantId = t.id
                     /\ g.createdAt < today - settingsOf(t).auditLogRetentionDays}

(***************************************************************************)
(* C21.  Each tenant's retention cleanup is one unit of work: when it      *)
(* fails part-way, between the per-link analytics deletes or between the   *)
(* analytics and the audit-log delete, either all of the tenant's expired  *)
(* rows have been deleted or none have.                                    *)
(***************************************************************************)
C21_TenantCleanupAllOrNothing ==
  [][(job'.failed # job.failed)
       => LET t == tenants[job.i]
              noneGone == /\ ExpiredAnalytics(t) \subseteq analytics'
                          /\ ExpiredAuditLogs(t) \subseteq auditLogs'
                          /\ ~(job.pc = "audit" /\ job.deletedAnalytics > 0)
              allGone == /\ ExpiredAnalytics(t) \cap analytics' = {}
                         /\ ExpiredAuditLogs(t) \cap auditLogs' = {}
          IN  noneGone \/ allGone
    ]_vars

(***************************************************************************)
(* C30.  If the platform-wide analytics delete or the tenant listing       *)
(* fails, the run performs no per-tenant cleanup at all and ends without   *)
(* raising: it leaves the audit log as it was, and the next scheduled run  *)
(* starts as any other.                                                    *)
(***************************************************************************)
C30_PlatformFailureEndsRun ==
  /\ job.platformFailed
       => (job.pc = "aborted" /\ job.cleaned = {} /\ job.failed = {})
  /\ job.pc = "idle"
       => (job.cleaned = {} /\ job.failed = {} /\ ~job.platformFailed)

\* The run after one that ended in the outer catch has cleaned a tenant.
C30_Witness ==
  /\ job.previous = "aborted"
  /\ job.pc = "done"
  /\ "tA" \in job.cleaned


(***************************************************************************)
(* The privacy library: IP anonymization.  An address is a string of       *)
(* characters; null and undefined are values distinct from every string.   *)
(***************************************************************************)
Ipv6Groups == 8
GroupDigits == 4
KeptGroups == 3
Ipv4Parts == 4
MappedPrefixLength == 7

null == <<"null">>
undefined == <<"undefined">>

\* The values a condition treats as false: null, undefined and "".
Falsy(v) == v \in {null, undefined, <<>>}

\* String.prototype.split with a non-empty separator.
RECURSIVE split(_, _)
split(s, sep) ==
  LET hits == {i \in 1..(Len(s) - Len(sep) + 1) : SubSeq(s, i, i + Len(sep) - 1) = sep}
  IN  IF hits = {} THEN <<s>>
      ELSE LET i == CHOOSE j \in hits : \A k \in hits : j <= k
           IN  <<SubSeq(s, 1, i - 1)>> \o split(SubSeq(s, i + Len(sep), Len(s)), sep)

\* Array.prototype.join.
RECURSIVE join(_, _)
join(parts, sep) ==
  IF parts = <<>> THEN <<>>
  ELSE IF Len(parts) = 1 THEN parts[1]
  ELSE parts[1] \o sep \o join(Tail(parts), sep)

\* String.prototype.padStart with a one-character filler.
padStart(p, n, fill) ==
  IF Len(p) >= n THEN p ELSE [i \in 1..(n - Len(p)) |-> fill] \o p

\* p.replace(/^0+/, "") || "0"
RECURSIVE dropLeadingZeros(_)
dropLeadingZeros(p) ==
  IF p # <<>> /\ Head(p) = "0" THEN dropLeadingZeros(Tail(p)) ELSE p

stripGroup(p) ==
  LET stripped == dropLeadingZeros(p)
  IN  IF stripped = <<>> THEN <<"0">> ELSE stripped

padGroups(parts) ==
  [i \in 1..Len(parts) |-> padStart(parts[i], GroupDigits, "0")]

expandIpv6(ip) ==
  IF includes(ip, <<":", ":">>)
  THEN LET parts == split(ip, <<":", ":">>)
       IN  IF Len(parts) > 2 THEN null
           ELSE LET left == IF parts[1] # <<>> THEN split(parts[1], <<":">>) ELSE <<>>
                    right == IF parts[2] # <<>> THEN split(parts[2], <<":">>) ELSE <<>>
                    missing == Ipv6Groups - Len(left) - Len(right)
                IN  IF missing < 0 THEN null
                    ELSE LET middle == [i \in 1..missing |-> <<"0", "0", "0", "0">>]
                             full == left \o middle \o right
                         IN  join(padGroups(full), <<":">>)
  ELSE LET parts == split(ip, <<":">>)
       IN  IF Len(parts) # Ipv6Groups THEN null
           ELSE join(padGroups(parts), <<":">>)

\* Mutation: a run as long as the longest so far replaces it.
longerRun_OrEqual(currentLength, longestLength) == currentLength >= longestLength

\* currentLength > longestLength
longerRun(currentLength, longestLength) == currentLength > longestLength

NoRun ==
  [longestStart |-> 0 - 1, longestLength |-> 0,
   currentStart |-> 0 - 1, currentLength |-> 0]

keepLongest(st) ==
  IF longerRun(st.currentLength, st.longestLength)
  THEN [st EXCEPT !.longestStart = st.currentStart,
                  !.longestLength = st.currentLength]
  ELSE st

\* The loop over the groups, i counting from 0 as in the code, and the
\* check of the run that ends with the last group.
RECURSIVE scanZeroRuns(_, _, _)
scanZeroRuns(parts, i, st) ==
  IF i >= Len(parts) THEN keepLongest(st)
  ELSE scanZeroRuns(parts, i + 1,
         IF parts[i + 1] = <<"0">>
         THEN IF st.currentStart = 0 - 1
              THEN [st EXCEPT !.currentStart = i, !.currentLength = 1]
              ELSE [st EXCEPT !.currentLength = @ + 1]
         ELSE [keepLongest(st) EXCEPT !.currentStart = 0 - 1,
                                      !.currentLength = 0])

compressIpv6(ip) ==
  LET raw == split(ip, <<":">>)
      parts == [i \in 1..Len(raw) |-> stripGroup(raw[i])]
      run == scanZeroRuns(parts, 0, NoRun)
  IN  IF run.longestLength > 1
      THEN LET before == SubSeq(parts, 1, run.longestStart)
               after == SubSeq(parts, run.longestStart + run.longestLength + 1,
                               Len(parts))
           IN  join(before, <<":">>) \o <<":", ":">> \o join(after, <<":">>)
      ELSE join(parts, <<":">>)

anonymizeIpv6(ip) ==
  LET expanded == expandIpv6(ip)
  IN  IF Falsy(expanded) THEN null
      ELSE LET parts == split(expanded, <<":">>)
           IN  IF Len(parts) # Ipv6Groups THEN null
               ELSE compressIpv6(
                      join(SubSeq(parts, 1, KeptGroups)
                             \o [i \in 1..(Ipv6Groups - KeptGroups) |-> <<"0">>],
                           <<":">>))

anonymizeIpv4(ip) ==
  LET parts == split(ip, <<".">>)
  IN  IF Len(parts) # Ipv4Parts THEN null
      ELSE join([parts EXCEPT ![Ipv4Parts] = <<"0">>], <<".">>)

MappedPrefix == <<":", ":", "f", "f", "f", "f", ":">>

anonymizeIp(ip, level) ==
  IF Falsy(ip) \/ level = "full" THEN null
  ELSE IF level = "none" THEN ip
  ELSE LET trimmedIp == trim(ip)
       IN  IF startsWith(trimmedIp, MappedPrefix)
           THEN LET anonymized == anonymizeIpv4(slice(trimmedIp, MappedPrefixLength))
                IN  IF Falsy(anonymized) THEN null
                    ELSE MappedPrefix \o anonymized
           ELSE IF includes(trimmedIp, <<".">>) /\ ~includes(trimmedIp, <<":">>)
           THEN anonymizeIpv4(trimmedIp)
           ELSE anonymizeIpv6(trimmedIp)


(***************************************************************************)
(* Calls of the IP anonymization functions.  An input address is written   *)
(* from eight groups; with its text the model keeps the value of each      *)
(* group, so that a property can speak of the bits of the address.         *)
(***************************************************************************)
HexDigitValue ==
  [c \in {"0", "1", "2", "3", "7", "8", "a", "b", "d", "A", "B", "D"} |->
     CASE c = "0" -> 0 [] c = "1" -> 1 [] c = "2" -> 2 [] c = "3" -> 3
       [] c = "7" -> 7 [] c = "8" -> 8
       [] c \in {"a", "A"} -> 10 [] c \in {"b", "B"} -> 11
       [] c \in {"d", "D"} -> 13]

RECURSIVE hexValue(_)
hexValue(g) ==
  IF g = <<>> THEN 0
  ELSE 16 * hexValue(SubSeq(g, 1, Len(g) - 1)) + HexDigitValue[g[Len(g)]]

GroupValues(texts) == [i \in 1..Len(texts) |-> hexValue(texts[i])]

NoCut == [start |-> 0, len |-> 0]

\* The ranges of zero-valued groups that "::" may stand for.
Cuts(texts) ==
  {c \in [start : 1..Len(texts), len : 1..Len(texts)] :
     /\ c.start + c.len - 1 <= Len(texts)
     /\ \A i \in c.start..(c.start + c.len - 1) : hexValue(texts[i]) = 0}

Written(texts, cut) ==
  [text |-> IF cut = NoCut THEN join(texts, <<":">>)
            ELSE join(SubSeq(texts, 1, cut.start - 1), <<":">>)
                   \o <<":", ":">>
                   \o join(SubSeq(texts, cut.start + cut.len, Len(texts)), <<":">>),
   groups |-> GroupValues(texts)]

\* Ways of writing the second and third group: zero, and one value in
\* lower case, in upper case and with a leading zero.
HeadGroupTexts ==
  {<<"0">>, <<"d", "b", "8">>, <<"D", "B", "8">>, <<"0", "d", "b", "8">>}

TailGroupTexts ==
  {<<<<"8", "d", "3">>, <<"1", "3", "1">>, <<"8", "a", "2">>, <<"3", "7", "0">>,
     <<"7", "3", "8">>>>,
   <<<<"0">>, <<"0">>, <<"0">>, <<"0">>, <<"1">>>>}

AnonymizeGroupTexts ==
  {<<<<"2", "0", "0", "1">>, a, b>> \o tail :
     a \in HeadGroupTexts, b \in HeadGroupTexts, tail \in TailGroupTexts}

AnonymizeInputs ==
  UNION {{Written(texts, cut) : cut \in Cuts(texts) \cup {NoCut}} :
           texts \in AnonymizeGroupTexts}

\* The canonical compressed form: lower case, no leading zeros, "::" for the
\* longest run of two or more zero groups, the first such run on a tie.
CanonicalGroupTexts == {<<"0">>, <<"a", "0">>, <<"2", "0", "0", "1">>}

IsZeroRun(texts, c) ==
  /\ c \in Cuts(texts)
  /\ c.start = 1 \/ texts[c.start - 1] # <<"0">>
  /\ c.start + c.len - 1 = Len(texts) \/ texts[c.start + c.len] # <<"0">>

CanonicalCut(texts) ==
  LET runs == {c \in Cuts(texts) : IsZeroRun(texts, c) /\ c.len >= 2}
  IN  IF runs = {} THEN NoCut
      ELSE CHOOSE c \in runs :
             \A d \in runs : c.len > d.len \/ (c.len = d.len /\ c.start <= d.start)

CanonicalInputs ==
  {Written(texts, CanonicalCut(texts)) :
     texts \in [1..Ipv6Groups -> CanonicalGroupTexts]}

InitIpv6 ==
  /\ pArgs \in {<<a, b>> : a \in AnonymizeInputs, b \in AnonymizeInputs}
                 \cup {<<a>> : a \in CanonicalInputs}
  /\ pRet = Pending
  /\ lastTrack = Pending
  /\ DomainAdminIdle
  /\ DomainIdle
  /\ StoreIdle
  /\ AdminIdle

\* anonymizeIp at level "partial" applied to each of two addresses.
CallAnonymizeIp ==
  /\ pRet = Pending
  /\ Len(pArgs) = 2
  /\ pRet' = [fn |-> "anonymizeIp",
              ret |-> <<anonymizeIp(pArgs[1].text, "partial"),
                        anonymizeIp(pArgs[2].text, "partial")>>]
  /\ UNCHANGED <<pArgs, lastTrack, domainAdminVars, domainVars, storeVars, adminVars>>

\* expandIpv6, then compressIpv6 applied to its result.
CallExpandCompress ==
  /\ pRet = Pending
  /\ Len(pArgs) = 1
  /\ pRet' = [fn |-> "compressIpv6",
              ret |-> LET expanded == expandIpv6(pArgs[1].text)
                      IN  IF expanded = null THEN null ELSE compressIpv6(expanded)]
  /\ UNCHANGED <<pArgs, lastTrack, domainAdminVars, domainVars, storeVars, adminVars>>

NextIpv6 == CallAnonymizeIp \/ CallExpandCompress

SpecIpv6 == InitIpv6 /\ [][NextIpv6]_vars

\* The value of each group of an address in text form.
ValuesOf(text) ==
  LET expanded == expandIpv6(text)
  IN  IF expanded = null THEN <<>> ELSE GroupValues(split(expanded, <<":">>))

SamePrefix ==
  SubSeq(pArgs[1].groups, 1, KeptGroups) = SubSeq(pArgs[2].groups, 1, KeptGroups)

(***************************************************************************)
(* C22.  Partial anonymization of two well-formed IPv6 addresses that      *)
(* agree on their first 48 bits returns the same string for both, and that *)
(* string stands for the shared first three groups followed by five zero   *)
(* groups.                                                                 *)
(***************************************************************************)
C22_SamePrefixSameResult ==
  (pRet # Pending /\ pRet.fn = "anonymizeIp" /\ SamePrefix)
  => /\ pRet.ret[1] = pRet.ret[2]
     /\ ValuesOf(pRet.ret[1])
          = SubSeq(pArgs[1].groups, 1, KeptGroups)
              \o [i \in 1..(Ipv6Groups - KeptGroups) |-> 0]

\* The same statement for addresses written in lower case only.
LowerCaseArgs ==
  \A i \in 1..Len(pArgs) : pArgs[i].text = toLowerCase(pArgs[i].text)

C22_LowerCaseSamePrefixSameResult == LowerCaseArgs => C22_SamePrefixSameResult

(***************************************************************************)
(* C23.  Expanding and then compressing an address in canonical compressed *)
(* form returns the address unchanged.                                     *)
(***************************************************************************)
C23_RoundTrip ==
  (pRet # Pending /\ pRet.fn = "compressIpv6") => pRet.ret = pArgs[1].text

\* The round trip of an address with two longest zero runs of equal length,
\* the second of which is written out.
C23_Witness ==
  /\ pRet # Pending
  /\ pRet.fn = "compressIpv6"
  /\ pRet.ret = pArgs[1].text
  /\ pArgs[1].groups = <<0, 0, 160, 8193, 0, 0, 160, 0>>


(***************************************************************************)
(* prepareAnalyticsData: the analytics fields allowed by the privacy       *)
(* settings.                                                               *)
(***************************************************************************)
\* value || null
orNull(value) == IF Falsy(value) THEN null ELSE value

\* Mutation: the field is collected whatever the setting says.
collected_Always(flag, value) == orNull(value)

\* flag ? (value || null) : null
collected(flag, value) == IF flag THEN orNull(value) ELSE null

prepareAnalyticsData(rawData, settings) ==
  [country |-> collected(settings.collectGeoData, rawData.country),
   region |-> collected(settings.collectGeoData, rawData.region),
   language |-> orNull(rawData.language),
   deviceType |-> collected(settings.collectDeviceType, rawData.deviceType),
   referrer |-> collected(settings.collectReferrer, rawData.referrer),
   anonymizedIp |-> anonymizeIp(rawData.ip, settings.ipAnonymization)]

AnonymizationLevels == {"none", "partial", "full"}

PrivacySettingsInputs ==
  [isNull : {FALSE},
   ipAnonymization : AnonymizationLevels,
   analyticsRetentionDays : {DefaultAnalyticsRetentionDays},
   auditLogRetentionDays : {DefaultAuditLogRetentionDays},
   collectReferrer : BOOLEAN,
   collectDeviceType : BOOLEAN,
   collectGeoData : BOOLEAN]

Ipv4Text == <<"1", ".", "2", ".", "3", ".", "7">>
Ipv6Text == <<"2", "0", "0", "1", ":", "d", "b", "8", ":", ":", "7">>

RawDataInputs ==
  [country : {undefined, <<"D", "E">>},
   region : {undefined, <<"B", "Y">>},
   language : {undefined, <<"d", "e">>},
   deviceType : {undefined, <<"mobile">>},
   referrer : {undefined, <<>>, <<Scheme, "a", ".", "d", "e">>},
   ip : {undefined, Ipv4Text, Ipv6Text}]

InitPrepare ==
  /\ pArgs \in {<<rawData, settings>> :
                  rawData \in RawDataInputs, settings \in PrivacySettingsInputs}
  /\ pRet = Pending
  /\ lastTrack = Pending
  /\ DomainAdminIdle
  /\ DomainIdle
  /\ StoreIdle
  /\ AdminIdle

CallPrepareAnalyticsData ==
  /\ pRet = Pending
  /\ pRet' = [fn |-> "prepareAnalyticsData",
              ret |-> prepareAnalyticsData(pArgs[1], pArgs[2])]
  /\ UNCHANGED <<pArgs, lastTrack, domainAdminVars, domainVars, storeVars, adminVars>>

NextPrepare == CallPrepareAnalyticsData

SpecPrepare == InitPrepare /\ [][NextPrepare]_vars

\* The raw value as it is stored: an absent or empty value is stored as null.
Stored(value) == IF value \in {undefined, <<>>} THEN null ELSE value

(***************************************************************************)
(* C24.  prepareAnalyticsData gates the fields by the settings: referrer   *)
(* is null when collectReferrer is false, country and region are null when *)
(* collectGeoData is false, deviceType is null when collectDeviceType is   *)
(* false; a field whose setting is true, and language under every setting, *)
(* carries the raw value; anonymizedIp is anonymizeIp of the raw ip at the *)
(* level of the settings.                                                  *)
(***************************************************************************)
C24_FieldsGatedByPolicy ==
  (pRet # Pending /\ pRet.fn = "prepareAnalyticsData")
  => LET rawData == pArgs[1]
         settings == pArgs[2]
         out == pRet.ret
     IN  /\ out.referrer = IF settings.collectReferrer THEN Stored(rawData.referrer)
                           ELSE null
         /\ out.country = IF settings.collectGeoData THEN Stored(rawData.country)
                          ELSE null
         /\ out.region = IF settings.collectGeoData THEN Stored(rawData.region)
                         ELSE null
         /\ out.deviceType = IF settings.collectDeviceType
                             THEN Stored(rawData.deviceType) ELSE null
         /\ out.language = Stored(rawData.language)
         /\ out.anonymizedIp = anonymizeIp(rawData.ip, settings.ipAnonymization)

\* A call with every collection switched off, every raw field present and
\* partial anonymization: only language and the truncated address remain.
C24_Witness ==
  /\ pRet # Pending
  /\ pRet.fn = "prepareAnalyticsData"
  /\ ~pArgs[2].collectReferrer
  /\ ~pArgs[2].collectGeoData
  /\ ~pArgs[2].collectDeviceType
  /\ pArgs[2].ipAnonymization = "partial"
  /\ \A f \in {"country", "region", "language", "deviceType", "referrer"} :
       pArgs[1][f] \notin {undefined, <<>>}
  /\ pArgs[1].ip = Ipv4Text
  /\ pRet.ret.language = <<"d", "e">>
  /\ pRet.ret.referrer = null
  /\ pRet.ret.country = null
  /\ pRet.ret.deviceType = null
  /\ pRet.ret.anonymizedIp = <<"1", ".", "2", ".", "3", ".", "0">>


(***************************************************************************)
(* POST /api/links/:shortCode/track (server/routes.ts).  resolveTenant has *)
(* set req.tenant from the hostname or the logged-in user before the       *)
(* handler runs; the handler looks the link up, takes the privacy settings *)
(* of the request, stores the prepared analytics row and then increments   *)
(* the click count of the link.                                            *)
(***************************************************************************)
\* getPrivacySettings(req), reqTenant being the id of req.tenant.
getPrivacySettings(table, reqTenant) ==
  LET rows == getTenant(table, reqTenant)
  IN  IF reqTenant # NoTenant /\ rows # <<>> /\ ~rows[1].privacySettings.isNull
      THEN rows[1].privacySettings
      ELSE DEFAULT_PRIVACY_SETTINGS

getLinkByShortCode(table, shortCode) == SelectSeq(table, LAMBDA l : l.shortCode = shortCode)

incrementClickCount(table, id) ==
  [i \in 1..Len(table) |->
     IF table[i].id = id THEN [table[i] EXCEPT !.clickCount = @ + 1] ELSE table[i]]

\* trackClickWithPrivacy: the row inserted into analytics.
trackClickWithPrivacy(rows, linkId, rawData, privacySettings, day) ==
  LET preparedData == prepareAnalyticsData(rawData, privacySettings)
  IN  rows \cup {[id |-> Cardinality(rows) + 1, linkId |-> linkId, clickedAt |-> day,
                  country |-> preparedData.country,
                  region |-> preparedData.region,
                  language |-> preparedData.language,
                  deviceType |-> preparedData.deviceType,
                  referrer |-> preparedData.referrer,
                  anonymizedIp |-> preparedData.anonymizedIp]}

\* Links of tenant tA, of tenant tB and of no tenant.
TrackLinks ==
  <<[id |-> "l1", shortCode |-> "c1", tenantId |-> "tA", clickCount |-> 0],
    [id |-> "l2", shortCode |-> "c2", tenantId |-> "tB", clickCount |-> 0],
    [id |-> "l3", shortCode |-> "c3", tenantId |-> NoTenant, clickCount |-> 0]>>

ShortCodeInputs == {"c1", "c2", "c3", "zz"}

\* Tenant tA collects referrers and stores addresses as they are or
\* truncated; tenant tB has no settings of its own or collects nothing.
TrackTenantInputs ==
  {<<[id |-> "tA", slug |-> "bmi", domainWhitelist |-> <<>>, isActive |-> TRUE,
      privacySettings |-> [DEFAULT_PRIVACY_SETTINGS EXCEPT
                             !.ipAnonymization = level, !.collectReferrer = TRUE]],
     [id |-> "tB", slug |-> "muc", domainWhitelist |-> <<>>, isActive |-> TRUE,
      privacySettings |-> settingsB]>> :
     level \in {"none", "partial"},
     settingsB \in {NullSettings,
                    [DEFAULT_PRIVACY_SETTINGS EXCEPT !.collectGeoData = FALSE,
                                                     !.collectDeviceType = FALSE]}}

TrackRawData ==
  [country : {<<"D", "E">>}, region : {undefined}, language : {<<"d", "e">>},
   deviceType : {<<"mobile">>},
   referrer : {undefined, <<Scheme, "a", ".", "d", "e">>},
   ip : {Ipv4Text}]

InitTrack ==
  /\ tenants \in TrackTenantInputs
  /\ lastTenantReq = Pending
  /\ links = TrackLinks
  /\ routingRules = <<>>
  /\ lastCall = Pending
  /\ lastPreview = Pending
  /\ lastTrack = Pending
  /\ pArgs = <<>>
  /\ pRet = Pending
  /\ DomainAdminIdle
  /\ DomainIdle
  /\ CacheIdle
  /\ RetentionIdle

\* No tracking request is between its two store calls.
NoTrackInFlight == IF lastTrack = Pending THEN TRUE ELSE lastTrack.pc = "done"

\* The link is not found: 404.
TrackUnknownLink ==
  /\ NoTrackInFlight
  /\ \E shortCode \in ShortCodeInputs, reqTenant \in {NoTenant, "tA", "tB"} :
       /\ getLinkByShortCode(links, shortCode) = <<>>
       /\ lastTrack' = [pc |-> "done", status |-> 404, linkId |-> "none",
                        reqTenant |-> reqTenant,
                        privacySettings |-> DEFAULT_PRIVACY_SETTINGS]
  /\ UNCHANGED <<pArgs, pRet, links, routingRules, lastCall, lastPreview,
                 domainAdminVars, domainVars, adminVars>>

\* The link is found: the settings of the request shape the stored row.
TrackClick ==
  /\ NoTrackInFlight
  /\ Cardinality(analytics) < MaxRows
  /\ \E shortCode \in ShortCodeInputs, reqTenant \in {NoTenant, "tA", "tB"},
        rawData \in TrackRawData :
       LET found == getLinkByShortCode(links, shortCode)
           privacySettings == getPrivacySettings(tenants, reqTenant)
       IN  /\ found # <<>>
           /\ analytics' = trackClickWithPrivacy(analytics, found[1].id, rawData,
                                                 privacySettings, today)
           /\ lastTrack' = [pc |-> "count", status |-> 0, linkId |-> found[1].id,
                            reqTenant |-> reqTenant,
                            privacySettings |-> privacySettings]
  /\ UNCHANGED <<pArgs, pRet, auditLogs, today, job, storeVars, tenantVars, cacheVars,
                 domainAdminVars, domainVars>>

\* incrementClickCount, then the response.
TrackCount ==
  /\ lastTrack # Pending
  /\ lastTrack.pc = "count"
  /\ links' = incrementClickCount(links, lastTrack.linkId)
  /\ lastTrack' = [lastTrack EXCEPT !.pc = "done", !.status = 200]
  /\ UNCHANGED <<pArgs, pRet, routingRules, lastCall, lastPreview,
                 domainAdminVars, domainVars, adminVars>>

NextTrack == TrackUnknownLink \/ TrackClick \/ TrackCount

SpecTrack == InitTrack /\ [][NextTrack]_vars

\* The settings of the tenant that owns the link, the defaults for a link
\* of no tenant.
OwnerSettings(linkId) ==
  IF LinkTenant(linkId) = NoTenant THEN DEFAULT_PRIVACY_SETTINGS
  ELSE settingsOf(getTenant(tenants, LinkTenant(linkId))[1])

(***************************************************************************)
(* C25.  The privacy settings that shape the analytics row of a click are  *)
(* those of the tenant that owns the link, and the platform defaults only  *)
(* for a link of no tenant, whatever tenant the request resolved to.       *)
(***************************************************************************)
C25_OwnerSettingsUsed ==
  (lastTrack # Pending /\ lastTrack.linkId # "none")
  => lastTrack.privacySettings = OwnerSettings(lastTrack.linkId)


(***************************************************************************)
(* C26.  When refreshes of the domain cache overlap, the rows of an older  *)
(* store query never replace different rows of a later one: once a refresh *)
(* whose query ran after a deactivation has installed its map, no refresh  *)
(* whose query ran before it brings the tenant back.                       *)
(***************************************************************************)
C26_OlderSnapshotNeverOverwrites ==
  \A r \in Requests : ~req[r].overwroteNewer


(***************************************************************************)
(* Custom-domain administration (server/routes/ai.ts):                     *)
(* POST /api/tenants/:id/domains/:domainId/verify and                      *)
(* DELETE /api/tenants/:id/domains/:domainId.                              *)
(***************************************************************************)
\* storage.verifyCustomDomain: the row with this id becomes active.
verifyCustomDomain(rows, id) ==
  {IF d.id = id THEN [d EXCEPT !.sslStatus = "active"] ELSE d : d \in rows}

\* storage.deleteCustomDomain: the row with this id is removed.
deleteCustomDomain(rows, id) == {d \in rows : d.id # id}

\* Mutation: the tenant of the path may be any tenant.
domainAccessDenied_Open(user, tenant) == FALSE

\* user.role !== "federal" && user.tenantId !== tenant.id
domainAccessDenied(user, tenant) ==
  user.role # "federal" /\ user.tenantId # tenant.id

\* Custom domains of tenant tA and of tenant tB.
CustomDomainInputs ==
  {[id |-> "d1", domain |-> <<"a">>, tenantId |-> "tA", sslStatus |-> "pending"],
   [id |-> "d2", domain |-> <<"b">>, tenantId |-> "tB", sslStatus |-> "pending"],
   [id |-> "d3", domain |-> <<"c">>, tenantId |-> "tB", sslStatus |-> "active"]}

DomainIdInputs == {"d1", "d2", "d3"}

DomainUsers ==
  {[role |-> "federal", tenantId |-> NoTenant],
   [role |-> "state", tenantId |-> "tA"],
   [role |-> "state", tenantId |-> "tB"],
   [role |-> "local", tenantId |-> "tA"]}

InitDomains ==
  /\ tenants = CacheTenants
  /\ lastTenantReq = Pending
  /\ customDomains \in SUBSET CustomDomainInputs
  /\ lastDomainReq = Pending
  /\ PrivacyIdle
  /\ DomainIdle
  /\ StoreIdle
  /\ CacheIdle
  /\ RetentionIdle

\* The checks both handlers make before they call the store.
domainRequestStatus(user, tenant, success) ==
  IF ~requireRole(user, "state") THEN 403
  ELSE IF tenant = <<>> THEN 404
  ELSE IF domainAccessDenied(user, tenant[1]) THEN 403
  ELSE success

\* The response of a handler and the table it leaves behind.
DomainResponse(route, user, id, domainId, status, rows) ==
  /\ customDomains' = rows
  /\ lastDomainReq' = [route |-> route, user |-> user, id |-> id,
                       domainId |-> domainId, status |-> status,
                       changed |-> rows # customDomains]
  /\ UNCHANGED <<privacyVars, domainVars, storeVars, adminVars>>

VerifyDomain ==
  \E user \in DomainUsers, k \in 1..(Len(tenants) + 1), domainId \in DomainIdInputs :
    LET id == TenantIdSeq[k]
        status == domainRequestStatus(user, getTenant(tenants, id), 200)
    IN  DomainResponse("POST /api/tenants/:id/domains/:domainId/verify",
                       user, id, domainId, status,
                       IF status = 200 THEN verifyCustomDomain(customDomains, domainId)
                       ELSE customDomains)

DeleteDomain ==
  \E user \in DomainUsers, k \in 1..(Len(tenants) + 1), domainId \in DomainIdInputs :
    LET id == TenantIdSeq[k]
        status == domainRequestStatus(user, getTenant(tenants, id), 204)
    IN  DomainResponse("DELETE /api/tenants/:id/domains/:domainId",
                       user, id, domainId, status,
                       IF status = 204 THEN deleteCustomDomain(customDomains, domainId)
                       ELSE customDomains)

NextDomains == VerifyDomain \/ DeleteDomain

SpecDomains == InitDomains /\ [][NextDomains]_vars

\* The rows of the custom domains owned by the given tenant.
DomainsOf(rows, tenantId) == {d \in rows : d.tenantId = tenantId}

(***************************************************************************)
(* C27.  A verify or delete request of a user who is not federal changes   *)
(* or removes no custom domain of a tenant other than the user's own.      *)
(***************************************************************************)
C27_ForeignDomainsUntouched ==
  [][\A user \in DomainUsers, t \in {"tA", "tB"} :
       (lastDomainReq' # lastDomainReq /\ lastDomainReq'.user = user
          /\ user.role # "federal" /\ user.tenantId # t)
       => DomainsOf(customDomains', t) = DomainsOf(customDomains, t)]_vars

(***************************************************************************)
(* The same for the tenant named in the path: a request that is let        *)
(* through changes at most the domain it names, and only for a federal     *)
(* user or a user of the tenant in the path.                               *)
(***************************************************************************)
C27_PathTenantChecked ==
  (lastDomainReq # Pending /\ lastDomainReq.changed)
  => \/ lastDomainReq.user.role = "federal"
     \/ lastDomainReq.user.tenantId = lastDomainReq.id


(***************************************************************************)
(* Audit logging (server/middleware/audit.ts) together with the retention  *)
(* job.  A row of audit_logs carries, next to its columns, the tenant the  *)
(* request was resolved to (context), which is not a column.               *)
(***************************************************************************)
\* The values logAudit inserts: userId, action, resourceType, resourceId,
\* ipAddress, userAgent and details; tenantId is not among them and stays
\* null.
auditRow(rows, reqTenant, day) ==
  [id |-> Cardinality(rows) + 1, tenantId |-> NoTenant, createdAt |-> day,
   context |-> reqTenant]

\* logAudit for a successful request resolved to reqTenant.
LogAudit ==
  /\ Cardinality(auditLogs) < MaxAuditRows
  /\ \E reqTenant \in {NoTenant, "tA", "tB"} :
       auditLogs' = auditLogs \cup {auditRow(auditLogs, reqTenant, today)}
  /\ UNCHANGED <<analytics, today, job, domainVars, storeVars, tenantVars, cacheVars,
                 extVars>>

InitAudit ==
  /\ tenants \in RetentionTenantInputs
  /\ lastTenantReq = Pending
  /\ links = RetentionLinks
  /\ routingRules = <<>>
  /\ lastCall = Pending
  /\ lastPreview = Pending
  /\ analytics = {}
  /\ auditLogs = {}
  /\ today = 0
  /\ job = JobIdle
  /\ DomainIdle
  /\ CacheIdle
  /\ ExtIdle

NextAudit == LogAudit \/ NextRetention

SpecAudit == InitAudit /\ [][NextAudit]_vars

\* The rows written in the context of tenant t that are older than t's
\* audit-log retention window.
ExpiredInContext(t) ==
  {g \in auditLogs : /\ g.context = t.id
                     /\ g.createdAt < today - settingsOf(t).auditLogRetentionDays}

(***************************************************************************)
(* C28.  Every audit-log row written for a request with a resolved tenant  *)
(* carries that tenant's id, and once a retention run has cleaned an       *)
(* active tenant T no row written in T's context and older than T's        *)
(* auditLogRetentionDays remains.                                          *)
(***************************************************************************)
C28_AuditRowsCarryTenant ==
  /\ \A g \in auditLogs : g.context # NoTenant => g.tenantId = g.context
  /\ \A i \in 1..Len(tenants) :
       (job.pc = "done" /\ tenants[i].id \in job.cleaned)
       => ExpiredInContext(tenants[i]) = {}

\* The second half alone: after the run that cleaned T, no expired row of
\* T's context remains.
C28_NoExpiredRowAfterRun ==
  \A i \in 1..Len(tenants) :
    (job.pc = "done" /\ tenants[i].id \in job.cleaned)
    => ExpiredInContext(tenants[i]) = {}


(***************************************************************************)
(* C29.  Every pattern stored in a tenant's domainWhitelist is in          *)
(* normalized form, whichever request stored it: tenant create, tenant     *)
(* update or privacy-settings update.                                      *)
(***************************************************************************)
C29_StoredPatternsNormalized ==
  \A i \in 1..Len(tenants) :
    \A j \in 1..Len(tenants[i].domainWhitelist) :
       normalizeDomainPattern(tenants[i].domainWhitelist[j])
         = tenants[i].domainWhitelist[j]

\* The same for the patterns the two update routes store.
C29_UpdatesStoreNormalized ==
  [][(lastTenantReq' # Pending /\ lastTenantReq'.status = 200)
       => \A i \in 1..Len(tenants) :
            tenants'[i].domainWhitelist # tenants[i].domainWhitelist
            => \A j \in 1..Len(tenants'[i].domainWhitelist) :
                 normalizeDomainPattern(tenants'[i].domainWhitelist[j])
                   = tenants'[i].domainWhitelist[j]]_vars

=============================================================================
